---- MODULE Spec2Model ----
(***************************************************************************)
(* A model of the UIX compiler (nyigoro/uix-lang).                         *)
(*                                                                         *)
(*   Spec        compiler/compile-to-react.js: collection pass, partition  *)
(*               of the bind targets, JSX generation, parameter list,      *)
(*               state declarations and the emitted artifact.              *)
(*   LegacySpec  the earlier single-pass compiler (unnamed/part_001).      *)
(*   SchemaSpec  UIXSchema.validate of the validation system               *)
(*               (unnamed/part_000).                                       *)
(*   ComponentSpec  UIXValidator.validateComponent (unnamed/part_000).     *)
(*   PluginSpec  the plugin-hook boundary, from the specification.         *)
(*   CompilerSpec  the validation strictness mode, from the specification. *)
(*   RerunSpec   compile-to-react.js run twice on one program.             *)
(*   NestedSpec  compile-to-react.js on programs with nested bind          *)
(*               annotations of one target.                                *)
(*   SeedSpec    the state declarations of compile-to-react.js as a        *)
(*               function of internalStates.                               *)
(*                                                                         *)
(* A JavaScript string is a sequence of one-character strings, so that     *)
(* capitalize, startsWith, slice, split, the regular expressions and the   *)
(* default sort are computed as the code computes them.  Generated text is *)
(* a sequence whose elements are characters and template fragments.        *)
(***************************************************************************)
EXTENDS Integers, Sequences, FiniteSets, TLC

VARIABLES ast, pc, usedIdentifiers, bindCandidates, internalStates,
          externalProps, warnings, jsxBody, propsToInject, autoStates, output,
          boundVariables, valSchema, valValue, valField, outcome,
          componentValidators, compName, compProps, propsAfter,
          plugins, hooks, hookPoint, hookPayload, hookIndex, hookActive,
          callOrder, errorLog,
          strictValidation, compiled,
          run, firstOutput

schemaVars == <<valSchema, valValue, valField, outcome>>

registryVars == <<componentValidators, compName, compProps, propsAfter>>

pluginVars == <<plugins, hooks, hookPoint, hookPayload, hookIndex, hookActive,
                callOrder, errorLog>>

compilerVars == <<strictValidation, compiled>>

rerunVars == <<run, firstOutput>>

libraryVars == <<registryVars, pluginVars, compilerVars>>

vars == <<ast, pc, usedIdentifiers, bindCandidates, internalStates,
          externalProps, warnings, jsxBody, propsToInject, autoStates, output,
          boundVariables, schemaVars, libraryVars, rerunVars>>

----------------------------------------------------------------------------
(* Characters and strings *)

LowerLetters == <<"a","b","c","d","e","f","g","h","i","j","k","l","m",
                  "n","o","p","q","r","s","t","u","v","w","x","y","z">>

UpperLetters == <<"A","B","C","D","E","F","G","H","I","J","K","L","M",
                  "N","O","P","Q","R","S","T","U","V","W","X","Y","Z">>

Digits == <<"0","1","2","3","4","5","6","7","8","9">>

\* The characters of the model in UTF-16 code unit order.
CodeOrder == <<" ", "$", ".">> \o Digits \o UpperLetters \o <<"_">> \o LowerLetters

Range(s) == {s[i] : i \in 1..Len(s)}

IndexOf(s, c) == CHOOSE i \in 1..Len(s) : s[i] = c

CharCode(c) == IndexOf(CodeOrder, c)

IsLetter(c) == c \in Range(LowerLetters) \cup Range(UpperLetters)

IsDigit(c) == c \in Range(Digits)

toUpperCase(c) == IF c \in Range(LowerLetters) THEN UpperLetters[IndexOf(LowerLetters, c)] ELSE c

startsWith(s, prefix) == Len(s) >= Len(prefix) /\ SubSeq(s, 1, Len(prefix)) = prefix

slice(s, n) == SubSeq(s, n + 1, Len(s))

\* value.split(".")[0]
RECURSIVE splitDotFirst(_)
splitDotFirst(s) ==
  IF s = <<>> \/ Head(s) = "." THEN <<>> ELSE <<Head(s)>> \o splitDotFirst(Tail(s))

\* /^[a-zA-Z_$][a-zA-Z0-9_]*$/
SimpleIdentifierRegex(s) ==
  /\ s # <<>>
  /\ IsLetter(s[1]) \/ s[1] \in {"_", "$"}
  /\ \A i \in 2..Len(s) : IsLetter(s[i]) \/ IsDigit(s[i]) \/ s[i] = "_"

\* /^[a-zA-Z_$][a-zA-Z0-9_$.]*$/
IdentifierPathRegex(s) ==
  /\ s # <<>>
  /\ IsLetter(s[1]) \/ s[1] \in {"_", "$"}
  /\ \A i \in 2..Len(s) : IsLetter(s[i]) \/ IsDigit(s[i]) \/ s[i] \in {"_", "$", "."}

\* Comparison of two strings by code units, as Array.prototype.sort does by default.
RECURSIVE StrLess(_, _)
StrLess(a, b) ==
  IF a = <<>> THEN b # <<>>
  ELSE IF b = <<>> THEN FALSE
  ELSE IF Head(a) = Head(b) THEN StrLess(Tail(a), Tail(b))
  ELSE CharCode(Head(a)) < CharCode(Head(b))

RECURSIVE SortStrings(_)
SortStrings(S) ==
  IF S = {} THEN <<>>
  ELSE LET m == CHOOSE x \in S : \A y \in S \ {x} : StrLess(x, y)
       IN <<m>> \o SortStrings(S \ {m})

\* Array.prototype.join
RECURSIVE join(_, _)
join(parts, sep) ==
  IF parts = <<>> THEN <<>>
  ELSE IF Len(parts) = 1 THEN parts[1]
  ELSE parts[1] \o sep \o join(Tail(parts), sep)

\* JSON.stringify of a string (the model's alphabet has no character to escape)
JSONstringify(s) == <<"\"">> \o s \o <<"\"">>

----------------------------------------------------------------------------
(* The strings of the programs of the model *)

S_count == <<"c","o","u","n","t">>

S_setCount == <<"s","e","t","C","o","u","n","t">>

S_name == <<"n","a","m","e">>

S_Ann == <<"A","n","n">>

S_users == <<"u","s","e","r","s">>

S_user == <<"u","s","e","r">>

S_userName == <<"u","s","e","r",".","n","a","m","e">>

S_settings == <<"s","e","t","t","i","n","g","s">>

S_showMore == <<"s","h","o","w","M","o","r","e">>

S_greet == <<"g","r","e","e","t">>

S_Go == <<"G","o">>

S_hiThere == <<"h","i"," ","t","h","e","r","e">>

S_empty == <<>>

S_set == <<"s","e","t">>

S_on == <<"o","n">>

K_bind == <<"b","i","n","d">>

K_initial == <<"i","n","i","t","i","a","l">>

K_bindDefault == <<"b","i","n","d","D","e","f","a","u","l","t">>

K_text == <<"t","e","x","t">>

K_onClick == <<"o","n","C","l","i","c","k">>

K_onChange == <<"o","n","C","h","a","n","g","e">>

K_value == <<"v","a","l","u","e">>

T_App == <<"A","p","p">>

T_Title == <<"T","i","t","l","e">>

T_Row == <<"R","o","w">>

T_Button == <<"B","u","t","t","o","n">>

T_Input == <<"I","n","p","u","t">>

T_Text == <<"T","e","x","t">>

T_Counter == <<"C","o","u","n","t","e","r">>

T_If == <<"I","f">>

T_For == <<"F","o","r">>

H_div == <<"d","i","v">>

H_h1 == <<"h","1">>

H_button == <<"b","u","t","t","o","n">>

H_input == <<"i","n","p","u","t">>

H_span == <<"s","p","a","n">>

----------------------------------------------------------------------------
(* JavaScript values and the AST of the parser (compiler/uix.pegjs) *)

\* A property value is the object {type: 'expression', value} or a string.
Expr(s) == [typeof |-> "object", type |-> "expression", value |-> s]

Str(s) == [typeof |-> "string", type |-> "", value |-> s]

Undefined == [typeof |-> "undefined", type |-> "", value |-> <<>>]

isExpression(v) == v.typeof = "object" /\ v.type = "expression"

Prop(key, value) == [key |-> key, value |-> value]

StandardElement(name, props, children) ==
  [type |-> name, props |-> props, children |-> children,
   condition |-> Undefined, list |-> Undefined, item |-> <<>>]

IfBlock(cond, children) ==
  [type |-> T_If, props |-> <<>>, children |-> children,
   condition |-> Expr(cond), list |-> Undefined, item |-> <<>>]

ForBlock(item, list, children) ==
  [type |-> T_For, props |-> <<>>, children |-> children,
   condition |-> Undefined, list |-> Expr(list), item |-> item]

\* props[key], undefined when the key is absent
RECURSIVE GetProp(_, _)
GetProp(props, key) ==
  IF props = <<>> THEN Undefined
  ELSE IF Head(props).key = key THEN Head(props).value
  ELSE GetProp(Tail(props), key)

tagMap(type) ==
  CASE type = T_App -> H_div
    [] type = T_Title -> H_h1
    [] type = T_Row -> H_div
    [] type = T_Button -> H_button
    [] type = T_Input -> H_input
    [] type = T_Text -> H_span
    [] OTHER -> type

----------------------------------------------------------------------------
(* The programs of the model *)

MaxTop == 2

Leaves ==
  { StandardElement(T_Input, <<Prop(K_bind, Expr(S_count))>>, <<>>),
    StandardElement(T_Input, <<Prop(K_bind, Expr(S_name)), Prop(K_initial, Str(S_Ann))>>, <<>>),
    StandardElement(T_Input, <<Prop(K_bind, Expr(S_count)), Prop(K_initial, Str(S_hiThere))>>, <<>>),
    StandardElement(T_Input, <<Prop(K_bind, Expr(S_count)), Prop(K_initial, Expr(S_name))>>, <<>>),
    StandardElement(T_Input, <<Prop(K_bind, Expr(S_userName))>>, <<>>),
    StandardElement(T_Input, <<Prop(K_bind, Str(S_count))>>, <<>>),
    StandardElement(T_Text, <<Prop(K_bind, Expr(S_count))>>, <<>>),
    StandardElement(T_Text, <<Prop(K_text, Expr(S_userName))>>, <<>>),
    StandardElement(T_Text, <<Prop(K_text, Expr(S_count))>>, <<>>),
    StandardElement(T_Button, <<Prop(K_text, Str(S_Go)), Prop(K_onClick, Expr(S_settings))>>, <<>>),
    StandardElement(T_Button, <<Prop(K_onClick, Expr(S_setCount))>>, <<>>),
    StandardElement(T_Counter, <<Prop(K_value, Expr(S_count)), Prop(K_onChange, Expr(S_setCount))>>, <<>>) }

Blocks ==
  LET kids == {<<>>} \cup {<<l>> : l \in Leaves}
  IN {IfBlock(S_showMore, k) : k \in kids}
       \cup {ForBlock(S_user, S_users, k) : k \in kids}
       \cup {StandardElement(T_Row, <<>>, k) : k \in kids}

Nodes == Leaves \cup Blocks

Programs == UNION {[1..n -> Nodes] : n \in 0..MaxTop}

----------------------------------------------------------------------------
(* compile-to-react.js: helpers and the collection pass *)

capitalize(str) == IF str = <<>> THEN <<>> ELSE <<toUpperCase(Head(str))>> \o Tail(str)

setterOf(varName) == S_set \o capitalize(varName)

\* The set usedIdentifiers after extractIdentifiers(value)
extractIdentifiers(value, used) ==
  LET v == IF isExpression(value) THEN Str(value.value) ELSE value
  IN IF v.typeof = "string" /\ IdentifierPathRegex(v.value)
     THEN used \cup {splitDotFirst(v.value)}
     ELSE used

\* Faulty variant: an entry that is already in the map keeps its value.
RECURSIVE MapSet_keepsFirst(_, _, _)
MapSet_keepsFirst(m, k, v) ==
  IF m = <<>> THEN <<[name |-> k, initial |-> v]>>
  ELSE IF Head(m).name = k THEN m
  ELSE <<Head(m)>> \o MapSet_keepsFirst(Tail(m), k, v)

\* Map.prototype.set on a map kept as the sequence of its entries in insertion order
RECURSIVE MapSet(_, _, _)
MapSet(m, k, v) ==
  IF m = <<>> THEN <<[name |-> k, initial |-> v]>>
  ELSE IF Head(m).name = k THEN <<[name |-> k, initial |-> v]>> \o Tail(m)
  ELSE <<Head(m)>> \o MapSet(Tail(m), k, v)

MapKeys(m) == {m[i].name : i \in 1..Len(m)}

MapHas(m, k) == k \in MapKeys(m)

\* Faulty variant: the registration of a bind target marks no name as used.
bindUsedNames_none(varName) == {}

\* Faulty variant: only the bind target is marked as used, not its setter.
bindUsedNames_targetOnly(varName) == {varName}

\* The two names a registered bind target adds to usedIdentifiers (lines 61-62)
bindUsedNames(varName) == {varName, setterOf(varName)}

\* Faulty variant: the collection pass also tracks the identifiers of the
\* other property values.
collectProp_allProps(node, p, acc) ==
  IF p.key \notin {K_bind, K_initial, K_bindDefault}
  THEN [acc EXCEPT !.used = extractIdentifiers(p.value, @)]
  ELSE IF p.key # K_bind THEN acc
  ELSE IF ~isExpression(p.value)
       THEN [acc EXCEPT !.warns = Append(@, [kind |-> "bind-not-expression", found |-> p.value.value])]
  ELSE LET varName == p.value.value
           init == GetProp(node.props, K_initial)
           initialValue == IF init.typeof # "undefined" THEN init.value ELSE <<>>
       IN IF SimpleIdentifierRegex(varName)
          THEN [acc EXCEPT !.cands = MapSet(@, varName, initialValue),
                           !.used = @ \cup bindUsedNames(varName)]
          ELSE [acc EXCEPT !.warns = Append(@, [kind |-> "bind-not-identifier", found |-> varName])]

\* One iteration of the loop over node.props (lines 50-70)
collectProp(node, p, acc) ==
  IF p.key # K_bind THEN acc
  ELSE IF ~isExpression(p.value)
       THEN [acc EXCEPT !.warns = Append(@, [kind |-> "bind-not-expression", found |-> p.value.value])]
  ELSE LET varName == p.value.value
           init == GetProp(node.props, K_initial)
           initialValue == IF init.typeof # "undefined" THEN init.value ELSE <<>>
       IN IF SimpleIdentifierRegex(varName)
          THEN [acc EXCEPT !.cands = MapSet(@, varName, initialValue),
                           !.used = @ \cup bindUsedNames(varName)]
          ELSE [acc EXCEPT !.warns = Append(@, [kind |-> "bind-not-identifier", found |-> varName])]

RECURSIVE collectProps(_, _, _)
collectProps(node, props, acc) ==
  IF props = <<>> THEN acc
  ELSE collectProps(node, Tail(props), collectProp(node, Head(props), acc))

\* Faulty variant: the item binder of a For block is not tracked.
loopItemNames_none(item) == {}

\* usedIdentifiers.add(node.item): what a For block adds for its item binder,
\* in the collection pass (line 84) and in generateJSX (line 200)
loopItemNames(item) == {item}

RECURSIVE collectBindCandidatesFromAST(_, _)
RECURSIVE collectAll(_, _)
\* lines 45-86; the recursive calls on node.condition and node.list (lines 79,
\* 83) visit an expression object, which has no props, children or block type.
collectBindCandidatesFromAST(node, acc) ==
  LET a1 == collectProps(node, node.props, acc)
      a2 == collectAll(node.children, a1)
      a3 == IF node.type = T_If /\ node.condition.typeof # "undefined"
            THEN [a2 EXCEPT !.used = extractIdentifiers(Str(node.condition.value), @)]
            ELSE a2
  IN IF node.type = T_For /\ node.list.typeof # "undefined"
     THEN [a3 EXCEPT !.used = extractIdentifiers(Str(node.list.value), @)
                                \cup loopItemNames(node.item)]
     ELSE a3

\* nodes.forEach(collectBindCandidatesFromAST)
collectAll(nodes, acc) ==
  IF nodes = <<>> THEN acc
  ELSE collectAll(Tail(nodes), collectBindCandidatesFromAST(Head(nodes), acc))

----------------------------------------------------------------------------
(* compile-to-react.js: the partition of the bind candidates (lines 94-109) *)

\* The test of line 102
bothUsed(used, varName) == varName \in used /\ setterOf(varName) \in used

\* Faulty variant: two independent tests instead of if/else; every candidate is also
\* made internal state.
partitionStep_noElse(part, used, cand) ==
  [int |-> MapSet(part.int, cand.name, cand.initial),
   ext |-> IF bothUsed(used, cand.name) THEN part.ext \cup {cand.name} ELSE part.ext]

\* One call of the forEach callback: the candidate stays a prop (the empty
\* branch, recorded in ext) or becomes internal state.
partitionStep(part, used, cand) ==
  IF bothUsed(used, cand.name)
  THEN [part EXCEPT !.ext = @ \cup {cand.name}]
  ELSE [part EXCEPT !.int = MapSet(@, cand.name, cand.initial)]

RECURSIVE partitionAll(_, _, _)
partitionAll(cands, used, part) ==
  IF cands = <<>> THEN part
  ELSE partitionAll(Tail(cands), used, partitionStep(part, used, Head(cands)))

----------------------------------------------------------------------------
(* compile-to-react.js: code generation *)

NL == <<"\n">>

SP == <<" ">>

\* value={v} onChange={e => setV(e.target.value)}   (lines 216 and 219)
inputWiring(varName, setterName) ==
  K_value \o <<"=", "{">> \o varName \o <<"}", " ">> \o K_onChange
    \o <<"=", "{", "e => ">> \o setterName \o <<"(e.target.value)", "}">>

\* One iteration of the loop of renderProps (lines 117-177): the attributes
\* pushed so far and usedIdentifiers.
renderProp(p, internal, r) ==
  IF p.key \in {K_bind, K_initial, K_bindDefault} THEN r
  ELSE IF p.key = K_text THEN r
  ELSE IF MapHas(internal, p.key) THEN r
  ELSE IF startsWith(p.key, S_on)
       THEN IF isExpression(p.value) \/ p.value.typeof = "string"
            THEN [jsxProps |-> Append(r.jsxProps, p.key \o <<"=", "{">> \o p.value.value \o <<"}">>),
                  used |-> extractIdentifiers(p.value, r.used)]
            ELSE [r EXCEPT !.jsxProps = Append(@, p.key \o <<"=", "{">> \o JSONstringify(p.value.value) \o <<"}">>)]
  ELSE IF isExpression(p.value)
       THEN [jsxProps |-> Append(r.jsxProps, p.key \o <<"=", "{">> \o p.value.value \o <<"}">>),
             used |-> extractIdentifiers(p.value, r.used)]
  ELSE IF p.value.typeof = "string"
       THEN [r EXCEPT !.jsxProps = Append(@, p.key \o <<"=">> \o JSONstringify(p.value.value))]
  ELSE [r EXCEPT !.jsxProps = Append(@, p.key \o <<"=", "{">> \o JSONstringify(p.value.value) \o <<"}">>)]

RECURSIVE renderPropsLoop(_, _, _)
renderPropsLoop(props, internal, r) ==
  IF props = <<>> THEN r
  ELSE renderPropsLoop(Tail(props), internal, renderProp(Head(props), internal, r))

\* renderProps (lines 113-180): the attribute string and usedIdentifiers
renderProps(props, internal, used) ==
  LET r == renderPropsLoop(props, internal, [jsxProps |-> <<>>, used |-> used])
  IN [text |-> join(r.jsxProps, SP), used |-> r.used]

\* String.prototype.trim() === ""
trimIsEmpty(s) == \A i \in 1..Len(s) : s[i] \in {" ", "\n"}

\* Array.prototype.filter(Boolean) on an array of strings
RECURSIVE filterBoolean(_)
filterBoolean(parts) ==
  IF parts = <<>> THEN <<>>
  ELSE IF Head(parts) = <<>> THEN filterBoolean(Tail(parts))
  ELSE <<Head(parts)>> \o filterBoolean(Tail(parts))

\* Faulty variant: the loop source is interpolated with braces of its own,
\* {{users}.map(...)}.
forExpression_braced(indent, childIndent, list, item, innerChildren) ==
  indent \o <<"{", "{">> \o list \o <<"}">> \o <<".map((">> \o item \o <<", index) => (">> \o NL
    \o childIndent \o SP \o SP \o <<"<React.Fragment key={typeof ">> \o item
    \o <<" === 'object' && ">> \o item \o <<" !== null && 'id' in ">> \o item
    \o <<" ? ">> \o item \o <<".id : index}>">> \o NL
    \o innerChildren \o NL
    \o childIndent \o SP \o SP \o <<"</React.Fragment>">> \o NL
    \o indent \o <<"))}">>

\* The mapping expression of a For block (line 203)
forExpression(indent, childIndent, list, item, innerChildren) ==
  indent \o <<"{">> \o list \o <<".map((">> \o item \o <<", index) => (">> \o NL
    \o childIndent \o SP \o SP \o <<"<React.Fragment key={typeof ">> \o item
    \o <<" === 'object' && ">> \o item \o <<" !== null && 'id' in ">> \o item
    \o <<" ? ">> \o item \o <<".id : index}>">> \o NL
    \o innerChildren \o NL
    \o childIndent \o SP \o SP \o <<"</React.Fragment>">> \o NL
    \o indent \o <<"))}">>

\* Faulty variant: the wiring is emitted for an element of any type.
wiresBind_anyType(type, bind) == isExpression(bind)

\* The condition of line 210 under which value and onChange are emitted
wiresBind(type, bind) == type = T_Input /\ isExpression(bind)

RECURSIVE generateJSX(_, _, _, _)
RECURSIVE generateChildren(_, _, _, _)
\* generateJSX (lines 183-254): the text of the node and usedIdentifiers
generateJSX(node, indent, internal, used) ==
  LET childIndent == indent \o SP \o SP
  IN IF node.type = T_If
     THEN LET u1 == extractIdentifiers(Str(node.condition.value), used)
              kids == generateChildren(node.children, childIndent, internal, u1)
          IN [text |-> indent \o <<"{">> \o node.condition.value \o <<" ? (">> \o NL
                         \o join(kids.texts, NL) \o NL \o indent \o <<") : null}">>,
              used |-> kids.used]
     ELSE IF node.type = T_For
     THEN LET u1 == extractIdentifiers(Str(node.list.value), used) \cup loopItemNames(node.item)
              kids == generateChildren(node.children, childIndent \o SP \o SP, internal, u1)
          IN [text |-> forExpression(indent, childIndent, node.list.value, node.item,
                                     join(kids.texts, NL)),
              used |-> kids.used]
     ELSE LET jsxTag == tagMap(node.type)
              bind == GetProp(node.props, K_bind)
              specialInputProps ==
                IF wiresBind(node.type, bind)
                THEN inputWiring(bind.value, S_set \o capitalize(bind.value))
                ELSE <<>>
              rp == renderProps(node.props, internal, used)
              textValue == GetProp(node.props, K_text)
              u2 == IF isExpression(textValue)
                    THEN extractIdentifiers(Str(textValue.value), rp.used)
                    ELSE rp.used
              textContent ==
                IF textValue.typeof = "undefined" THEN <<>>
                ELSE IF isExpression(textValue)
                     THEN << <<"{">> \o textValue.value \o <<"}">> >>
                     ELSE <<textValue.value>>
              kids == generateChildren(node.children, childIndent, internal, u2)
              inner == join(filterBoolean(textContent \o kids.texts), NL)
              finalPropString == join(filterBoolean(<<rp.text, specialInputProps>>), SP)
              open == indent \o <<"<">> \o jsxTag
                        \o (IF finalPropString # <<>> THEN SP \o finalPropString ELSE <<>>)
          IN [text |-> IF trimIsEmpty(inner)
                       THEN open \o <<" />">>
                       ELSE open \o <<">">> \o NL \o inner \o NL \o indent
                              \o <<"</">> \o jsxTag \o <<">">>,
              used |-> kids.used]

\* children.map(c => generateJSX(c, indent)), left to right
generateChildren(nodes, indent, internal, used) ==
  IF nodes = <<>> THEN [texts |-> <<>>, used |-> used]
  ELSE LET first == generateJSX(Head(nodes), indent, internal, used)
           rest == generateChildren(Tail(nodes), indent, internal, first.used)
       IN [texts |-> <<first.text>> \o rest.texts, used |-> rest.used]

----------------------------------------------------------------------------
(* compile-to-react.js: parameter list, state declarations, artifact *)

\* Faulty variant: every identifier that starts with "set" is filtered out, as the
\* earlier compiler did.
keepAsProp_noSetPrefix(id, internal) ==
  ~MapHas(internal, id) /\ ~startsWith(id, S_set)

\* The filter callback of lines 261-266
keepAsProp(id, internal) ==
  LET varName == IF startsWith(id, S_set) THEN slice(id, 3) ELSE id
      isInternalStateVar == MapHas(internal, varName)
      isInternalStateSetter == startsWith(id, S_set) /\ MapHas(internal, varName)
  IN ~isInternalStateVar /\ ~isInternalStateSetter

\* Array.from(usedIdentifiers).filter(...).sort()
computePropsToInject(used, internal) ==
  SortStrings({id \in used : keepAsProp(id, internal)})

\* Faulty variant: the initial value is always passed through as it is.
stateInit_neverQuoted(initialValue) == initialValue

\* The initialiser of a state declaration (lines 273-275)
stateInit(initialValue) ==
  IF IdentifierPathRegex(initialValue) THEN initialValue ELSE JSONstringify(initialValue)

\* One declaration (line 276)
stateDeclaration(entry) ==
  <<"  const [">> \o entry.name \o <<", ">> \o S_set \o capitalize(entry.name)
    \o <<"] = React.useState(">> \o stateInit(entry.initial) \o <<");">>

computeAutoStates(internal) ==
  join([i \in 1..Len(internal) |-> stateDeclaration(internal[i])], NL)

\* The template of lines 283-325; the comment block of lines 288-317 is one fragment.
computeOutput(props, states, body) ==
  <<"// Auto-generated by UIX compiler\nimport React from \"react\";\n\nexport default function CompiledUI({ ">>
    \o join(props, <<",", " ">>) \o <<" }) {\n">>
    \o (IF states # <<>> THEN states \o NL ELSE <<>>)
    \o <<"\n  // IMPORTANT: ...\n\n  return (\n    <>\n">>
    \o body
    \o <<"\n    </>\n  );\n}\n">>

----------------------------------------------------------------------------
(* compile-to-react.js as a state machine: the statements of the script *)

NoRun ==
  /\ usedIdentifiers = {}
  /\ bindCandidates = <<>>
  /\ internalStates = <<>>
  /\ externalProps = {}
  /\ warnings = <<>>
  /\ jsxBody = <<>>
  /\ propsToInject = <<>>
  /\ autoStates = <<>>
  /\ output = <<>>
  /\ boundVariables = <<>>

\* No validation is in progress
NoValidation ==
  /\ valSchema = <<>>
  /\ valValue = <<>>
  /\ valField = <<>>
  /\ outcome = <<>>

\* No component is registered and none is being validated
NoRegistry ==
  /\ componentValidators = <<>>
  /\ compName = <<>>
  /\ compProps = <<>>
  /\ propsAfter = <<>>

\* No plugin is registered and no hook point is being executed
NoPlugins ==
  /\ plugins = <<>>
  /\ hooks = <<>>
  /\ hookPoint = <<>>
  /\ hookPayload = <<>>
  /\ hookIndex = 0
  /\ hookActive = {}
  /\ callOrder = <<>>
  /\ errorLog = <<>>

NoCompiler ==
  /\ strictValidation = FALSE
  /\ compiled = <<>>

NoLibrary == NoRegistry /\ NoPlugins /\ NoCompiler

\* The first run of the script
FirstRun ==
  /\ run = 1
  /\ firstOutput = <<>>

\* lines 14-23: the parsed program and the empty collections
Init ==
  /\ ast \in Programs
  /\ pc = "collect"
  /\ NoRun
  /\ NoValidation
  /\ NoLibrary
  /\ FirstRun

\* line 89
Collect ==
  /\ pc = "collect"
  /\ LET acc == collectAll(ast, [used |-> usedIdentifiers, cands |-> bindCandidates,
                                 warns |-> warnings])
     IN /\ usedIdentifiers' = acc.used
        /\ bindCandidates' = acc.cands
        /\ warnings' = acc.warns
  /\ pc' = "partition"
  /\ UNCHANGED <<ast, internalStates, externalProps, jsxBody, propsToInject, autoStates, output, boundVariables, schemaVars, libraryVars, rerunVars>>

\* lines 94-109
Partition ==
  /\ pc = "partition"
  /\ LET part == partitionAll(bindCandidates, usedIdentifiers, [int |-> <<>>, ext |-> {}])
     IN /\ internalStates' = part.int
        /\ externalProps' = part.ext
  /\ pc' = "generate"
  /\ UNCHANGED <<ast, usedIdentifiers, bindCandidates, warnings, jsxBody, propsToInject, autoStates, output, boundVariables, schemaVars, libraryVars, rerunVars>>

\* line 257
Generate ==
  /\ pc = "generate"
  /\ LET g == generateChildren(ast, SP \o SP, internalStates, usedIdentifiers)
     IN /\ jsxBody' = join(g.texts, NL)
        /\ usedIdentifiers' = g.used
  /\ pc' = "props"
  /\ UNCHANGED <<ast, bindCandidates, internalStates, externalProps, warnings, propsToInject, autoStates, output, boundVariables, schemaVars, libraryVars, rerunVars>>

\* lines 261-266
InjectProps ==
  /\ pc = "props"
  /\ propsToInject' = computePropsToInject(usedIdentifiers, internalStates)
  /\ pc' = "states"
  /\ UNCHANGED <<ast, usedIdentifiers, bindCandidates, internalStates, externalProps, warnings, jsxBody, autoStates, output, boundVariables, schemaVars, libraryVars, rerunVars>>

\* lines 269-278
AutoStates ==
  /\ pc = "states"
  /\ autoStates' = computeAutoStates(internalStates)
  /\ pc' = "output"
  /\ UNCHANGED <<ast, usedIdentifiers, bindCandidates, internalStates, externalProps, warnings, jsxBody, propsToInject, output, boundVariables, schemaVars, libraryVars, rerunVars>>

\* lines 280-328
Emit ==
  /\ pc = "output"
  /\ output' = computeOutput(propsToInject, autoStates, jsxBody)
  /\ pc' = "done"
  /\ UNCHANGED <<ast, usedIdentifiers, bindCandidates, internalStates, externalProps, warnings, jsxBody, propsToInject, autoStates, boundVariables, schemaVars, libraryVars, rerunVars>>

Next == Collect \/ Partition \/ Generate \/ InjectProps \/ AutoStates \/ Emit

Spec == Init /\ [][Next]_vars

----------------------------------------------------------------------------
(* Vocabulary of the properties *)

\* Every node of a forest, parents before children
RECURSIVE allNodes(_)
allNodes(nodes) ==
  IF nodes = <<>> THEN <<>>
  ELSE <<Head(nodes)>> \o allNodes(Head(nodes).children) \o allNodes(Tail(nodes))

rootOf(value) == splitDotFirst(value.value)

\* The identifiers a node's property values reference, the bind annotation
\* and its initial value apart
propertyReferences(node) ==
  {rootOf(node.props[i].value) : i \in {j \in 1..Len(node.props) :
      /\ node.props[j].key \notin {K_bind, K_initial, K_bindDefault}
      /\ isExpression(node.props[j].value)}}

\* The identifiers a node references other than by a bind annotation
nodeReferences(node) ==
  IF node.type = T_If THEN {rootOf(node.condition)}
  ELSE IF node.type = T_For THEN {rootOf(node.list), node.item}
  ELSE propertyReferences(node)

referencedElsewhere(nodes) ==
  LET all == allNodes(nodes) IN UNION {nodeReferences(all[i]) : i \in 1..Len(all)}

\* The nodes that carry bind: v as an expression
bindSites(nodes, v) ==
  LET all == allNodes(nodes)
  IN {i \in 1..Len(all) : GetProp(all[i].props, K_bind) = Expr(v)}

\* The identifiers referenced as property values on elements that do not bind v
referencedOnOtherElements(nodes, v) ==
  LET all == allNodes(nodes)
  IN UNION {propertyReferences(all[i]) : i \in (1..Len(all)) \ bindSites(nodes, v)}

\* The positions at which sub occurs in text
occurrences(text, sub) ==
  {i \in 1..(Len(text) - Len(sub) + 1) : SubSeq(text, i, i + Len(sub) - 1) = sub}

contains(text, sub) == occurrences(text, sub) # {}

\* The head of the declaration of the state pair of v, up to the seed
declarationHead(v) == <<"  const [">> \o v \o <<", ">> \o setterOf(v) \o <<"] = React.useState(">>

partitioned == pc \notin {"collect", "partition"}

candidateNames == MapKeys(bindCandidates)

internalNames == MapKeys(internalStates)

----------------------------------------------------------------------------
(* Properties of the partition (Spec) *)

\* The rule of the specification: both names are referenced elsewhere
evidentlyPassedDown(v) ==
  v \in referencedElsewhere(ast) /\ setterOf(v) \in referencedElsewhere(ast)

\* C1: once the partition is computed, a bind target is ExternalProp if and
\* only if both its name and its setter name are referenced somewhere other
\* than by the bind annotation itself, and is InternalState in every other case.
C1_ClassificationRule ==
  partitioned =>
    \A v \in candidateNames :
      /\ v \in externalProps <=> evidentlyPassedDown(v)
      /\ v \in internalNames <=> ~evidentlyPassedDown(v)

\* C2: when bind: count stands on exactly one node and neither count nor
\* setCount is referenced anywhere else, count is in internalStates after the
\* classification loop.
C2_PartitionDeterminism ==
  ( /\ partitioned
    /\ Cardinality(bindSites(ast, S_count)) = 1
    /\ referencedElsewhere(ast) \cap {S_count, S_setCount} = {} )
  => S_count \in internalNames

countPassedToOtherElement ==
  /\ bindSites(ast, S_count) # {}
  /\ {S_count, S_setCount} \subseteq referencedOnOtherElements(ast, S_count)

\* C3: when a node binds count and both count and setCount are referenced as
\* property values on other elements, count is ExternalProp: it is not in
\* internalStates and no local state declaration is generated for it.
C3_PartitionExternality ==
  (partitioned /\ countPassedToOtherElement) =>
    /\ S_count \in externalProps
    /\ S_count \notin internalNames
    /\ pc \in {"output", "done"} => ~contains(autoStates, declarationHead(S_count))

C3_Witness ==
  /\ pc = "done"
  /\ countPassedToOtherElement
  /\ S_count \in externalProps

\* C4: after classification InternalState and ExternalProp are disjoint and
\* every bind candidate belongs to exactly one of them.
C4_PartitionDisjoint ==
  partitioned =>
    /\ internalNames \cap externalProps = {}
    /\ internalNames \cup externalProps = candidateNames
    /\ \A v \in candidateNames : (v \in internalNames) # (v \in externalProps)

C4_Witness ==
  /\ pc = "done"
  /\ Cardinality(candidateNames) = 2
  /\ candidateNames \subseteq internalNames \cup externalProps

inputNameAnn ==
  StandardElement(T_Input, <<Prop(K_bind, Expr(S_name)), Prop(K_initial, Str(S_Ann))>>, <<>>)

\* C5: for Input(bind: name, initial: "Ann") with no other reference to name
\* or setName, the output declares the state pair (name, setName) seeded with
\* the literal "Ann" and the parameter list does not contain name.
C5_LocalStateSeededAnn ==
  ( /\ pc = "done"
    /\ \E i \in DOMAIN ast : ast[i] = inputNameAnn
    /\ Cardinality(bindSites(ast, S_name)) = 1
    /\ referencedElsewhere(ast) \cap {S_name, setterOf(S_name)} = {} )
  => /\ contains(output, declarationHead(S_name) \o JSONstringify(S_Ann) \o <<");">>)
     /\ S_name \notin Range(propsToInject)

----------------------------------------------------------------------------
(* Properties of the emitted artifact (Spec) *)

parameters == Range(propsToInject)

declarationsOf(v) == occurrences(autoStates, declarationHead(v))

\* C7: in the emitted artifact an ExternalProp bind target has no local state
\* declaration and both its name and its setter are parameters; an
\* InternalState bind target has exactly one declaration and neither name is
\* a parameter; no name is both a parameter and a declared state variable.
C7_BindingsMatchPartition ==
  pc = "done" =>
    /\ \A v \in externalProps :
         /\ declarationsOf(v) = {}
         /\ v \in parameters
         /\ setterOf(v) \in parameters
    /\ \A v \in internalNames :
         /\ Cardinality(declarationsOf(v)) = 1
         /\ v \notin parameters
         /\ setterOf(v) \notin parameters
    /\ \A v \in candidateNames :
         declarationsOf(v) # {} => {v, setterOf(v)} \cap parameters = {}

C7_Witness ==
  /\ pc = "done"
  /\ S_count \in externalProps
  /\ {S_count, S_setCount} \subseteq parameters
  /\ autoStates = <<>>

textUserName == StandardElement(T_Text, <<Prop(K_text, Expr(S_userName))>>, <<>>)

usersLoop == ForBlock(S_user, S_users, <<textUserName>>)

\* The For blocks of the program
forBlocks == LET all == allNodes(ast) IN {i \in 1..Len(all) : all[i].type = T_For}

mapHead == S_users \o <<".map((">> \o S_user \o <<", index) => (">>

childText == <<"<">> \o H_span \o <<">">> \o NL \o <<"{">> \o S_userName \o <<"}">> \o NL

onlyUsersLoop ==
  /\ \E i \in DOMAIN ast : ast[i] = usersLoop
  /\ Cardinality(forBlocks) = 1
  /\ S_users \notin candidateNames

\* C8: for a loop over users with item binder user and child
\* Text(text: user.name), users never a bind target, the output contains
\* exactly one mapping expression users.map((user, index) => ...), the loop
\* source is not wrapped in braces of its own, the child is instantiated
\* inside the mapping expression, and users is a parameter.
C8_LoopMapping ==
  (pc = "done" /\ onlyUsersLoop) =>
    /\ Cardinality(occurrences(output, mapHead)) = 1
    /\ Cardinality(occurrences(output, <<".map((">>)) = 1
    /\ ~contains(output, <<"{">> \o S_users \o <<"}", ".map((">>)
    /\ \A m \in occurrences(output, mapHead) : output[m - 1] = "{" /\ output[m - 2] = " "
    /\ \E m \in occurrences(output, mapHead),
          c \in occurrences(output, childText),
          e \in occurrences(output, <<"))}">>) : m < c /\ c < e
    /\ S_users \in parameters

C8_Witness ==
  /\ pc = "done"
  /\ onlyUsersLoop
  /\ contains(output, <<"{">> \o mapHead)

----------------------------------------------------------------------------
(* The earlier compiler (unnamed/part_001): one traversal, every well-formed *)
(* bind target becomes state.  Its parser yields plain strings for values.   *)

LegacyIf(cond, children) ==
  [type |-> T_If, props |-> <<>>, children |-> children,
   condition |-> Str(cond), list |-> Undefined, item |-> <<>>]

LegacyFor(item, list, children) ==
  [type |-> T_For, props |-> <<>>, children |-> children,
   condition |-> Undefined, list |-> Str(list), item |-> item]

LegacyLeaves ==
  { StandardElement(T_Input, <<Prop(K_bind, Str(S_count))>>, <<>>),
    StandardElement(T_Input, <<Prop(K_bind, Str(S_name)), Prop(K_initial, Str(S_hiThere))>>, <<>>),
    StandardElement(T_Input, <<Prop(K_bind, Str(S_userName))>>, <<>>),
    StandardElement(T_Text, <<Prop(K_text, Str(S_userName))>>, <<>>),
    StandardElement(T_Button, <<Prop(K_text, Str(S_hiThere)), Prop(K_onClick, Str(S_settings))>>, <<>>),
    StandardElement(T_Button, <<Prop(K_onClick, Str(S_setCount))>>, <<>>),
    StandardElement(T_Counter, <<Prop(K_value, Str(S_count)), Prop(K_onChange, Str(S_greet))>>, <<>>) }

LegacyBlocks ==
  LET kids == {<<>>} \cup {<<l>> : l \in LegacyLeaves}
  IN {LegacyIf(S_showMore, k) : k \in kids}
       \cup {LegacyFor(S_user, S_users, k) : k \in kids}
       \cup {StandardElement(T_Row, <<>>, k) : k \in kids}

LegacyPrograms == UNION {[1..n -> LegacyLeaves \cup LegacyBlocks] : n \in 0..MaxTop}

\* extractIdentifiers of part_001 (lines 24-30)
legacyExtractIdentifiers(val, used) ==
  IF val.typeof = "string" /\ IdentifierPathRegex(val.value)
  THEN used \cup {splitDotFirst(val.value)}
  ELSE used

\* The bind handling of renderProps (part_001 lines 49-64)
legacyRenderBind(props, st) ==
  LET bindPropValue == GetProp(props, K_bind)
      initialPropValue == GetProp(props, K_initial)
  IN IF bindPropValue.typeof = "undefined" THEN st
     ELSE IF bindPropValue.typeof # "string" \/ ~SimpleIdentifierRegex(bindPropValue.value)
          THEN [st EXCEPT !.warns = Append(@, [kind |-> "bind-not-identifier", found |-> bindPropValue.value]),
                          !.jsxProps = Append(@, K_value \o <<"=", "{">> \o bindPropValue.value \o <<"}">>)]
     ELSE LET varName == bindPropValue.value
          IN [st EXCEPT !.bound = MapSet(@, varName,
                                         IF initialPropValue.typeof # "undefined"
                                         THEN initialPropValue.value ELSE <<>>),
                        !.used = @ \cup {S_set \o capitalize(varName)},
                        !.jsxProps = Append(@, inputWiring(varName, S_set \o capitalize(varName)))]

\* One iteration of the second loop of renderProps (part_001 lines 67-93)
legacyRenderProp(p, st) ==
  IF p.key \in {K_bind, K_initial} THEN st
  ELSE IF p.key = K_text THEN st
  ELSE LET st1 == [st EXCEPT !.used = legacyExtractIdentifiers(p.value, @)]
       IN IF startsWith(p.key, S_on)
          THEN [st1 EXCEPT !.jsxProps = Append(@, p.key \o <<"=", "{">> \o p.value.value \o <<"}">>)]
          ELSE IF p.value.typeof = "string"
          THEN [st1 EXCEPT !.jsxProps = Append(@, p.key \o <<"=", "\"">> \o p.value.value \o <<"\"">>)]
          ELSE [st1 EXCEPT !.jsxProps = Append(@, p.key \o <<"=", "{">> \o JSONstringify(p.value.value) \o <<"}">>)]

RECURSIVE legacyRenderPropsLoop(_, _)
legacyRenderPropsLoop(props, st) ==
  IF props = <<>> THEN st
  ELSE legacyRenderPropsLoop(Tail(props), legacyRenderProp(Head(props), st))

\* renderProps of part_001 (lines 33-96): the attribute string and the collections
legacyRenderProps(props, st) ==
  LET r == legacyRenderPropsLoop(props,
             legacyRenderBind(props, [used |-> st.used, bound |-> st.bound,
                                      warns |-> st.warns, jsxProps |-> <<>>]))
  IN [text |-> join(r.jsxProps, SP), used |-> r.used, bound |-> r.bound, warns |-> r.warns]

RECURSIVE legacyGenerateJSX(_, _, _)
RECURSIVE legacyGenerateChildren(_, _, _)
\* generateJSX of part_001 (lines 99-149)
legacyGenerateJSX(node, indent, st) ==
  LET childIndent == indent \o SP \o SP
  IN IF node.type = T_If
     THEN LET st1 == [st EXCEPT !.used = legacyExtractIdentifiers(node.condition, @)]
              kids == legacyGenerateChildren(node.children, childIndent, st1)
          IN [kids EXCEPT !.texts = <<indent \o <<"{">> \o node.condition.value \o <<" ? (">> \o NL
                         \o join(kids.texts, NL) \o NL \o indent \o <<") : null}">> >>]
     ELSE IF node.type = T_For
     THEN LET st1 == [st EXCEPT !.used = legacyExtractIdentifiers(node.list, @) \cup {node.item}]
              kids == legacyGenerateChildren(node.children, childIndent \o SP \o SP, st1)
          IN [kids EXCEPT !.texts = <<forExpression(indent, childIndent, node.list.value,
                                                    node.item, join(kids.texts, NL))>>]
     ELSE LET jsxTag == tagMap(node.type)
              rp == legacyRenderProps(node.props, st)
              textValue == GetProp(node.props, K_text)
              isRef == textValue.typeof = "string" /\ IdentifierPathRegex(textValue.value)
              st2 == [used |-> IF isRef THEN legacyExtractIdentifiers(textValue, rp.used) ELSE rp.used,
                      bound |-> rp.bound, warns |-> rp.warns, texts |-> <<>>]
              textContent ==
                IF textValue.typeof = "undefined" THEN <<>>
                ELSE IF isRef THEN << <<"{">> \o textValue.value \o <<"}">> >>
                ELSE <<textValue.value>>
              kids == legacyGenerateChildren(node.children, childIndent, st2)
              inner == join(filterBoolean(textContent \o kids.texts), NL)
              open == indent \o <<"<">> \o jsxTag
                        \o (IF rp.text # <<>> THEN SP \o rp.text ELSE <<>>)
          IN [kids EXCEPT !.texts = <<IF trimIsEmpty(inner)
                                      THEN open \o <<" />">>
                                      ELSE open \o <<">">> \o NL \o inner \o NL \o indent
                                             \o <<"</">> \o jsxTag \o <<">">> >>]

\* children.map(c => generateJSX(c, indent)): the texts and the collections
legacyGenerateChildren(nodes, indent, st) ==
  IF nodes = <<>> THEN [used |-> st.used, bound |-> st.bound, warns |-> st.warns, texts |-> <<>>]
  ELSE LET first == legacyGenerateJSX(Head(nodes), indent, st)
           rest == legacyGenerateChildren(Tail(nodes), indent, first)
       IN [rest EXCEPT !.texts = first.texts \o @]

\* The filter callback of part_001 lines 156-158
legacyKeepAsProp(id, bound) ==
  /\ ~MapHas(bound, id)
  /\ ~startsWith(id, S_set)
  /\ ~\E bv \in MapKeys(bound) : id = S_set \o capitalize(bv)

legacyPropsToInject(used, bound) == SortStrings({id \in used : legacyKeepAsProp(id, bound)})

\* The template of part_001 lines 175-209
legacyOutput(props, states, body) ==
  <<"// Auto-generated by UIX compiler\nimport React from \"react\";\n\nexport default function CompiledUI({ ">>
    \o join(props, <<",", " ">>) \o <<" }) {\n">>
    \o (IF states # <<>> THEN states \o NL ELSE <<>>)
    \o <<"\n  // IMPORTANT: ... (legacy)\n\n  return (\n    <>\n">>
    \o body
    \o <<"\n    </>\n  );\n}\n">>

\* part_001 lines 14-18
LegacyInit ==
  /\ ast \in LegacyPrograms
  /\ pc = "generate"
  /\ NoRun
  /\ NoValidation
  /\ NoLibrary
  /\ FirstRun

\* part_001 line 152
LegacyGenerate ==
  /\ pc = "generate"
  /\ LET g == legacyGenerateChildren(ast, SP \o SP,
                [used |-> usedIdentifiers, bound |-> boundVariables, warns |-> warnings])
     IN /\ jsxBody' = join(g.texts, NL)
        /\ usedIdentifiers' = g.used
        /\ boundVariables' = g.bound
        /\ warnings' = g.warns
  /\ pc' = "props"
  /\ UNCHANGED <<ast, bindCandidates, internalStates, externalProps, propsToInject, autoStates, output, schemaVars, libraryVars, rerunVars>>

\* part_001 lines 156-158
LegacyInjectProps ==
  /\ pc = "props"
  /\ propsToInject' = legacyPropsToInject(usedIdentifiers, boundVariables)
  /\ pc' = "states"
  /\ UNCHANGED <<ast, usedIdentifiers, bindCandidates, internalStates, externalProps, warnings, jsxBody, autoStates, output, boundVariables, schemaVars, libraryVars, rerunVars>>

\* part_001 lines 161-170
LegacyAutoStates ==
  /\ pc = "states"
  /\ autoStates' = computeAutoStates(boundVariables)
  /\ pc' = "output"
  /\ UNCHANGED <<ast, usedIdentifiers, bindCandidates, internalStates, externalProps, warnings, jsxBody, propsToInject, output, boundVariables, schemaVars, libraryVars, rerunVars>>

\* part_001 lines 172-212
LegacyEmit ==
  /\ pc = "output"
  /\ output' = legacyOutput(propsToInject, autoStates, jsxBody)
  /\ pc' = "done"
  /\ UNCHANGED <<ast, usedIdentifiers, bindCandidates, internalStates, externalProps, warnings, jsxBody, propsToInject, autoStates, boundVariables, schemaVars, libraryVars, rerunVars>>

LegacyNext == LegacyGenerate \/ LegacyInjectProps \/ LegacyAutoStates \/ LegacyEmit

LegacySpec == LegacyInit /\ [][LegacyNext]_vars

----------------------------------------------------------------------------
(* The parameter list (Spec and LegacySpec) *)

\* The variables the generator manages itself: internalStates, or
\* boundVariables in the earlier compiler
stateNames == MapKeys(internalStates) \cup MapKeys(boundVariables)

\* C6: the emitted parameter list is usedIdentifiers, as it stands after the
\* traversals, minus every internal state variable and minus the setter of
\* every internal state variable, in lexicographic order without duplicates;
\* an identifier that merely begins with "set" is kept.
C6_ParameterList ==
  pc \in {"states", "output", "done"} =>
    propsToInject =
      SortStrings(usedIdentifiers \ (stateNames \cup {setterOf(v) : v \in stateNames}))

----------------------------------------------------------------------------
(* The validation system (unnamed/part_000): values *)

\* A JavaScript value.  t is its kind; s the characters of a string (or the
\* name of a function); n a number counted in halves, so that 3 is 6 and 1.5
\* is 3 (a boolean is n = 1 or 0); items the elements of an array; props the
\* entries of an object in insertion order.
JSValue(t, str, n, items, props) == [t |-> t, s |-> str, n |-> n, items |-> items, props |-> props]

VUndefined == JSValue("undefined", <<>>, 0, <<>>, <<>>)

VNull == JSValue("null", <<>>, 0, <<>>, <<>>)

VString(str) == JSValue("string", str, 0, <<>>, <<>>)

VNumber(halves) == JSValue("number", <<>>, halves, <<>>, <<>>)

VNaN == JSValue("NaN", <<>>, 0, <<>>, <<>>)

VBoolean(b) == JSValue("boolean", <<>>, IF b THEN 1 ELSE 0, <<>>, <<>>)

VFunction(name) == JSValue("function", name, 0, <<>>, <<>>)

VArray(items) == JSValue("array", <<>>, 0, items, <<>>)

VObject(props) == JSValue("object", <<>>, 0, <<>>, props)

\* The typeof operator
typeof(v) ==
  CASE v.t = "undefined" -> "undefined"
    [] v.t \in {"null", "array", "object"} -> "object"
    [] v.t \in {"number", "NaN"} -> "number"
    [] OTHER -> v.t

\* value === undefined || value === null
isAbsent(v) == v.t \in {"undefined", "null"}

\* value[key]
RECURSIVE getMember(_, _)
getMember(props, key) ==
  IF props = <<>> THEN VUndefined
  ELSE IF Head(props).key = key THEN Head(props).value
  ELSE getMember(Tail(props), key)

\* obj[key] = v on the entries of an object
RECURSIVE setMember(_, _, _)
setMember(props, key, v) ==
  IF props = <<>> THEN <<[key |-> key, value |-> v]>>
  ELSE IF Head(props).key = key THEN <<[key |-> key, value |-> v]>> \o Tail(props)
  ELSE <<Head(props)>> \o setMember(Tail(props), key, v)

\* String(n) for a whole number n >= 0
RECURSIVE numToString(_)
numToString(n) ==
  IF n < 10 THEN <<Digits[n + 1]>> ELSE numToString(n \div 10) \o <<Digits[(n % 10) + 1]>>

\* The text of a number counted in halves
halvesToString(h) == numToString(h \div 2) \o (IF h % 2 = 1 THEN <<".", "5">> ELSE <<>>)

\* The regular expressions of the schemas of the model
P_lower == <<"^", "[", "a", "-", "z", "]", "+", "$">>

\* new RegExp(pattern).test(value)
regexTest(pattern, str) ==
  IF pattern = P_lower
  THEN str # <<>> /\ \A i \in 1..Len(str) : str[i] \in Range(LowerLetters)
  ELSE FALSE

----------------------------------------------------------------------------
(* The validation system: schemas (part_000 lines 20-143) *)

\* An optional option is <<>> when undefined and <<x>> when it is x.
NoConstraints ==
  [minLength |-> <<>>, maxLength |-> <<>>, pattern |-> <<>>,
   min |-> <<>>, max |-> <<>>, integer |-> <<>>,
   items |-> <<>>, minItems |-> <<>>, maxItems |-> <<>>,
   properties |-> <<>>, values |-> <<>>, schemas |-> <<>>]

\* new UIXSchema(type, options)
UIXSchema(type, required, defaultValue, constraints) ==
  [type |-> type, required |-> required, defaultValue |-> defaultValue,
   constraints |-> constraints]

\* UIXSchema.optional(schema, defaultValue)
optional(sch, defaultValue) ==
  UIXSchema(sch.type, FALSE, defaultValue, sch.constraints)

\* A failure: the UIXValidationError thrown
Failure(message, field, val) ==
  [ok |-> FALSE, value |-> VUndefined,
   error |-> [message |-> message, field |-> field, value |-> val]]

NoError == [message |-> <<>>, field |-> <<>>, value |-> VUndefined]

Success(val) == [ok |-> TRUE, value |-> val, error |-> NoError]

----------------------------------------------------------------------------
(* The validation system: UIXSchema.validate (part_000 lines 148-303) *)

\* Faulty variant: an absent value of an optional schema is handed back as it is.
validateAbsent_keepsValue(schema, val, fieldName) ==
  IF schema.required
  THEN Failure(fieldName \o <<" is required">>, fieldName, val)
  ELSE Success(val)

\* lines 150-155: value is undefined or null
validateAbsent(schema, val, fieldName) ==
  IF schema.required
  THEN Failure(fieldName \o <<" is required">>, fieldName, val)
  ELSE Success(schema.defaultValue)

\* Faulty variant: the pattern is tested before the two lengths.
validateString_patternFirst(schema, val, fieldName) ==
  LET c == schema.constraints
  IN IF typeof(val) # "string"
     THEN Failure(fieldName \o <<" must be a string, got ">> \o <<typeof(val)>>, fieldName, val)
     ELSE IF c.pattern # <<>> /\ ~regexTest(c.pattern[1], val.s)
     THEN Failure(fieldName \o <<" must match pattern: ">> \o c.pattern[1], fieldName, val)
     ELSE IF c.minLength # <<>> /\ Len(val.s) < c.minLength[1]
     THEN Failure(fieldName \o <<" must be at least ">> \o numToString(c.minLength[1])
                    \o <<" characters long">>, fieldName, val)
     ELSE IF c.maxLength # <<>> /\ Len(val.s) > c.maxLength[1]
     THEN Failure(fieldName \o <<" must be no more than ">> \o numToString(c.maxLength[1])
                    \o <<" characters long">>, fieldName, val)
     ELSE Success(val)

\* lines 182-205
validateString(schema, val, fieldName) ==
  LET c == schema.constraints
  IN IF typeof(val) # "string"
     THEN Failure(fieldName \o <<" must be a string, got ">> \o <<typeof(val)>>, fieldName, val)
     ELSE IF c.minLength # <<>> /\ Len(val.s) < c.minLength[1]
     THEN Failure(fieldName \o <<" must be at least ">> \o numToString(c.minLength[1])
                    \o <<" characters long">>, fieldName, val)
     ELSE IF c.maxLength # <<>> /\ Len(val.s) > c.maxLength[1]
     THEN Failure(fieldName \o <<" must be no more than ">> \o numToString(c.maxLength[1])
                    \o <<" characters long">>, fieldName, val)
     ELSE IF c.pattern # <<>> /\ ~regexTest(c.pattern[1], val.s)
     THEN Failure(fieldName \o <<" must match pattern: ">> \o c.pattern[1], fieldName, val)
     ELSE Success(val)

\* lines 207-227
validateNumber(schema, val, fieldName) ==
  LET c == schema.constraints
  IN IF typeof(val) # "number" \/ val.t = "NaN"
     THEN Failure(fieldName \o <<" must be a number, got ">> \o <<typeof(val)>>, fieldName, val)
     ELSE IF c.min # <<>> /\ val.n < c.min[1]
     THEN Failure(fieldName \o <<" must be at least ">> \o halvesToString(c.min[1]), fieldName, val)
     ELSE IF c.max # <<>> /\ val.n > c.max[1]
     THEN Failure(fieldName \o <<" must be no more than ">> \o halvesToString(c.max[1]), fieldName, val)
     ELSE IF c.integer = <<TRUE>> /\ val.n % 2 # 0
     THEN Failure(fieldName \o <<" must be an integer">>, fieldName, val)
     ELSE Success(val)

\* lines 229-234
validateBoolean(schema, val, fieldName) ==
  IF typeof(val) # "boolean"
  THEN Failure(fieldName \o <<" must be a boolean, got ">> \o <<typeof(val)>>, fieldName, val)
  ELSE Success(val)

\* lines 236-241
validateFunction(schema, val, fieldName) ==
  IF typeof(val) # "function"
  THEN Failure(fieldName \o <<" must be a function, got ">> \o <<typeof(val)>>, fieldName, val)
  ELSE Success(val)

\* lines 282-288; the allowed values of the model are strings
validateEnum(schema, val, fieldName) ==
  LET values == schema.constraints.values
  IN IF ~\E i \in 1..Len(values) : values[i] = val
     THEN Failure(fieldName \o <<" must be one of: ">>
                    \o join([i \in 1..Len(values) |-> values[i].s], <<",", " ">>),
                  fieldName, val)
     ELSE Success(val)

RECURSIVE validate(_, _, _)
RECURSIVE validateItems(_, _, _, _)
RECURSIVE validateProperties(_, _, _)
RECURSIVE validateAlternatives(_, _, _, _)

\* value.map((item, index) => items.validate(item, `${fieldName}[${index}]`))
\* from index on (line 259): the first failure is thrown
validateItems(items, elems, fieldName, index) ==
  IF elems = <<>> THEN Success(VArray(<<>>))
  ELSE LET first == validate(items, Head(elems),
                             fieldName \o <<"[">> \o numToString(index) \o <<"]">>)
       IN IF ~first.ok THEN first
          ELSE LET rest == validateItems(items, Tail(elems), fieldName, index + 1)
               IN IF ~rest.ok THEN rest
                  ELSE Success(VArray(<<first.value>> \o rest.value.items))

\* lines 243-263
validateArray(schema, val, fieldName) ==
  LET c == schema.constraints
  IN IF val.t # "array"
     THEN Failure(fieldName \o <<" must be an array, got ">> \o <<typeof(val)>>, fieldName, val)
     ELSE IF c.minItems # <<>> /\ Len(val.items) < c.minItems[1]
     THEN Failure(fieldName \o <<" must have at least ">> \o numToString(c.minItems[1])
                    \o <<" items">>, fieldName, val)
     ELSE IF c.maxItems # <<>> /\ Len(val.items) > c.maxItems[1]
     THEN Failure(fieldName \o <<" must have no more than ">> \o numToString(c.maxItems[1])
                    \o <<" items">>, fieldName, val)
     ELSE IF c.items # <<>> THEN validateItems(c.items[1], val.items, fieldName, 0)
     ELSE Success(val)

\* Faulty variant: each property schema is given the whole object, not value[key].
validateProperty_wholeObject(entry, val, fieldName) ==
  validate(entry.schema, val, fieldName \o <<".">> \o entry.key)

\* schema.validate(value[key], `${fieldName}.${key}`)   (line 274)
validateProperty(entry, val, fieldName) ==
  validate(entry.schema, getMember(val.props, entry.key), fieldName \o <<".">> \o entry.key)

\* The loop of lines 273-275 over the declared properties that remain
validateProperties(properties, val, fieldName) ==
  IF properties = <<>> THEN Success(VObject(<<>>))
  ELSE LET first == validateProperty(Head(properties), val, fieldName)
       IN IF ~first.ok THEN first
          ELSE LET rest == validateProperties(Tail(properties), val, fieldName)
               IN IF ~rest.ok THEN rest
                  ELSE Success(VObject(<<[key |-> Head(properties).key, value |-> first.value]>>
                                         \o rest.value.props))

\* Faulty variant: the validated properties are written over a copy of the
\* value, so the properties the schema does not declare stay in the result.
validateObject_keepsUndeclared(schema, val, fieldName) ==
  LET c == schema.constraints
      r == validateProperties(c.properties[1], val, fieldName)
      undeclared ==
        SelectSeq(val.props,
                  LAMBDA e : \A i \in 1..Len(c.properties[1]) : c.properties[1][i].key # e.key)
  IN IF val.t # "object"
     THEN Failure(fieldName \o <<" must be an object, got ">> \o <<typeof(val)>>, fieldName, val)
     ELSE IF c.properties # <<>>
     THEN (IF r.ok THEN Success(VObject(r.value.props \o undeclared)) ELSE r)
     ELSE Success(val)

\* lines 265-280
validateObject(schema, val, fieldName) ==
  LET c == schema.constraints
  IN IF val.t # "object"
     THEN Failure(fieldName \o <<" must be an object, got ">> \o <<typeof(val)>>, fieldName, val)
     ELSE IF c.properties # <<>> THEN validateProperties(c.properties[1], val, fieldName)
     ELSE Success(val)

\* Faulty variant: only the message of the alternative tried last is kept.
validateAlternatives_lastError(schemas, val, fieldName, errors) ==
  IF schemas = <<>>
  THEN Failure(fieldName \o <<" must match one of the union types. Errors: ">>
                 \o join(errors, <<";", " ">>), fieldName, val)
  ELSE LET r == validate(Head(schemas), val, fieldName)
       IN IF r.ok THEN r
          ELSE validateAlternatives(Tail(schemas), val, fieldName, <<r.error.message>>)

\* The loop of lines 294-300 over the alternatives that remain, and the throw
\* of line 302 with the messages collected
validateAlternatives(schemas, val, fieldName, errors) ==
  IF schemas = <<>>
  THEN Failure(fieldName \o <<" must match one of the union types. Errors: ">>
                 \o join(errors, <<";", " ">>), fieldName, val)
  ELSE LET r == validate(Head(schemas), val, fieldName)
       IN IF r.ok THEN r
          ELSE validateAlternatives(Tail(schemas), val, fieldName, Append(errors, r.error.message))

\* The number of alternatives whose validate is called by the loop of lines
\* 293-299: the return of line 295 leaves the loop at the first success.
RECURSIVE alternativesTried(_, _, _)
alternativesTried(schemas, val, fieldName) ==
  IF schemas = <<>> THEN 0
  ELSE IF validate(Head(schemas), val, fieldName).ok THEN 1
  ELSE 1 + alternativesTried(Tail(schemas), val, fieldName)

\* Faulty variant: the alternatives are tried from the last one to the first.
validateUnion_reversed(schema, val, fieldName) ==
  LET schemas == schema.constraints.schemas
  IN validateAlternatives([i \in 1..Len(schemas) |-> schemas[Len(schemas) + 1 - i]],
                          val, fieldName, <<>>)

\* lines 290-303
validateUnion(schema, val, fieldName) ==
  validateAlternatives(schema.constraints.schemas, val, fieldName, <<>>)

\* lines 148-180
validate(schema, val, fieldName) ==
  IF isAbsent(val) THEN validateAbsent(schema, val, fieldName)
  ELSE CASE schema.type = "string" -> validateString(schema, val, fieldName)
         [] schema.type = "number" -> validateNumber(schema, val, fieldName)
         [] schema.type = "boolean" -> validateBoolean(schema, val, fieldName)
         [] schema.type = "function" -> validateFunction(schema, val, fieldName)
         [] schema.type = "array" -> validateArray(schema, val, fieldName)
         [] schema.type = "object" -> validateObject(schema, val, fieldName)
         [] schema.type = "enum" -> validateEnum(schema, val, fieldName)
         [] schema.type = "union" -> validateUnion(schema, val, fieldName)
         [] schema.type = "any" -> Success(val)
         [] OTHER -> Failure(<<"Unknown schema type: ">> \o <<schema.type>>, fieldName, val)

----------------------------------------------------------------------------
(* The schemas and the values of the model *)

MaxStr == 3

MaxHalves == 8

MaxItems == 2

F_value == <<"v","a","l","u","e">>

F_x == <<"x">>

Key_a == <<"a">>

Key_b == <<"b">>

Key_c == <<"c">>

\* UIXSchema.string(), .number(), ... with the options of the model
StringSchema == UIXSchema("string", FALSE, VUndefined, NoConstraints)

StrictStringSchema ==
  UIXSchema("string", TRUE, VUndefined,
            [NoConstraints EXCEPT !.minLength = <<2>>, !.maxLength = <<2>>, !.pattern = <<P_lower>>])

\* An optional string whose default does not meet the schema's own minLength
DefaultStringSchema ==
  optional(UIXSchema("string", TRUE, VUndefined, [NoConstraints EXCEPT !.minLength = <<2>>]),
           VString(<<"a">>))

NumberSchema == UIXSchema("number", FALSE, VUndefined, NoConstraints)

StrictNumberSchema ==
  UIXSchema("number", TRUE, VUndefined,
            [NoConstraints EXCEPT !.min = <<2>>, !.max = <<6>>, !.integer = <<TRUE>>])

\* A string schema no string meets: every string of one or two characters is
\* both too short and too long
CrossedStringSchema ==
  UIXSchema("string", TRUE, VUndefined,
            [NoConstraints EXCEPT !.minLength = <<3>>, !.maxLength = <<0>>, !.pattern = <<P_lower>>])

\* A number schema no number meets: 1.5 is below min, above max and not whole
CrossedNumberSchema ==
  UIXSchema("number", TRUE, VUndefined,
            [NoConstraints EXCEPT !.min = <<4>>, !.max = <<2>>, !.integer = <<TRUE>>])

BooleanSchema == UIXSchema("boolean", TRUE, VUndefined, NoConstraints)

FunctionSchema == UIXSchema("function", FALSE, VUndefined, NoConstraints)

AnySchema == UIXSchema("any", FALSE, VUndefined, NoConstraints)

RequiredAnySchema == UIXSchema("any", TRUE, VUndefined, NoConstraints)

EnumSchema ==
  UIXSchema("enum", FALSE, VUndefined,
            [NoConstraints EXCEPT !.values = <<VString(<<"a">>), VString(<<"a", "a">>)>>])

LeafSchemas ==
  {StringSchema, StrictStringSchema, DefaultStringSchema, NumberSchema, StrictNumberSchema,
   BooleanSchema, FunctionSchema, AnySchema, RequiredAnySchema, EnumSchema,
   CrossedStringSchema, CrossedNumberSchema}

ArraySchema(items) ==
  UIXSchema("array", TRUE, VUndefined,
            [NoConstraints EXCEPT !.items = items, !.minItems = <<1>>, !.maxItems = <<2>>])

ObjectSchema(properties) ==
  UIXSchema("object", FALSE, VUndefined, [NoConstraints EXCEPT !.properties = properties])

UnionSchema(schemas) ==
  UIXSchema("union", TRUE, VUndefined, [NoConstraints EXCEPT !.schemas = schemas])

PropertySchemas(sa, sb) == <<[key |-> Key_a, schema |-> sa], [key |-> Key_b, schema |-> sb]>>

PersonSchema == ObjectSchema(<<PropertySchemas(StrictStringSchema, DefaultStringSchema)>>)

Schemas ==
  LeafSchemas
    \cup {ArraySchema(<<>>), ArraySchema(<<StrictStringSchema>>), ArraySchema(<<DefaultStringSchema>>),
          ArraySchema(<<StrictNumberSchema>>), ArraySchema(<<PersonSchema>>)}
    \cup {ObjectSchema(<<>>), ObjectSchema(<<<<>>>>), PersonSchema,
          ObjectSchema(<<PropertySchemas(StrictNumberSchema, StringSchema)>>),
          ObjectSchema(<<PropertySchemas(AnySchema, ArraySchema(<<StrictStringSchema>>))>>)}
    \cup {UnionSchema(<<StrictStringSchema, StringSchema>>),
          UnionSchema(<<StringSchema, StrictStringSchema>>),
          UnionSchema(<<StrictNumberSchema, StrictStringSchema>>),
          UnionSchema(<<PersonSchema, ObjectSchema(<<>>)>>),
          UnionSchema(<<DefaultStringSchema, StringSchema>>),
          UnionSchema(<<ObjectSchema(<<>>), PersonSchema>>)}

Strings == UNION {[1..n -> {"a", "B"}] : n \in 0..MaxStr}

Primitives ==
  {VUndefined, VNull, VNaN, VBoolean(TRUE), VBoolean(FALSE), VFunction(<<"f">>)}
    \cup {VString(str) : str \in Strings}
    \cup {VNumber(h) : h \in 0..MaxHalves}

ItemPool == {VUndefined, VNull, VString(<<"a">>), VString(<<"a", "a">>), VNumber(4), VNumber(3)}

Arrays == {VArray(items) : items \in UNION {[1..n -> ItemPool] : n \in 0..MaxItems}}

MemberPool == {VString(<<"a", "a">>), VNumber(4), VNull}

Entries == {[key |-> k, value |-> v] : k \in {Key_a, Key_b, Key_c}, v \in MemberPool}

\* The objects with at most MaxItems properties, in either insertion order
Objects ==
  {VObject(props) : props \in
     {e \in UNION {[1..n -> Entries] : n \in 0..MaxItems} :
        \A i, j \in 1..Len(e) : i # j => e[i].key # e[j].key}}

Person(a, b) == VObject(<<[key |-> Key_a, value |-> a], [key |-> Key_b, value |-> b]>>)

Nested ==
  {VArray(<<Person(VString(<<"a", "a">>), VString(<<"a", "a">>))>>),
   VArray(<<Person(VString(<<"a", "a">>), VNull)>>),
   Person(VNumber(4), VArray(<<VString(<<"a", "a">>)>>)),
   Person(VNumber(4), VArray(<<VNumber(4)>>))}

Values == Primitives \cup Arrays \cup Objects \cup Nested

----------------------------------------------------------------------------
(* SchemaSpec: one call of schema.validate(value, fieldName) *)

SchemaInit ==
  /\ valSchema \in Schemas
  /\ valValue \in Values
  /\ valField \in {F_value, F_x}
  /\ outcome = <<>>
  /\ pc = "validate"
  /\ ast = <<>>
  /\ NoRun
  /\ NoLibrary
  /\ FirstRun

Validate ==
  /\ pc = "validate"
  /\ outcome' = validate(valSchema, valValue, valField)
  /\ pc' = "validated"
  /\ UNCHANGED <<ast, usedIdentifiers, bindCandidates, internalStates, externalProps, warnings,
                 jsxBody, propsToInject, autoStates, output, boundVariables,
                 valSchema, valValue, valField, libraryVars, rerunVars>>

SchemaNext == Validate

SchemaSpec == SchemaInit /\ [][SchemaNext]_vars

----------------------------------------------------------------------------
(* Properties of validate (SchemaSpec) *)

validated == pc = "validated"

isRequiredFailure(o, field) ==
  /\ ~o.ok
  /\ o.error.field = field
  /\ o.error.message = field \o <<" is required">>

\* The first property an object schema declares
firstProperty == valSchema.constraints.properties[1][1]

absentFirstProperty ==
  /\ valSchema.type = "object"
  /\ valSchema.constraints.properties # <<>>
  /\ valSchema.constraints.properties[1] # <<>>
  /\ valValue.t = "object"
  /\ isAbsent(getMember(valValue.props, firstProperty.key))

\* C9: when the value is absent (undefined or null), validate fails with the
\* missing-required failure naming the field path if the schema is required,
\* and otherwise returns the schema's defaultValue as it is, with no type or
\* constraint check; the same holds at the nested field path of a declared
\* property.
C9_AbsentValue ==
  validated =>
    /\ (isAbsent(valValue) /\ valSchema.required) => isRequiredFailure(outcome, valField)
    /\ (isAbsent(valValue) /\ ~valSchema.required) => outcome = Success(valSchema.defaultValue)
    /\ (absentFirstProperty /\ firstProperty.schema.required) =>
         isRequiredFailure(outcome, valField \o <<".">> \o firstProperty.key)

\* An absent value of an optional schema whose default the schema itself
\* would reject comes back as that default.
C9_Witness ==
  /\ validated
  /\ valValue = VNull
  /\ valSchema = DefaultStringSchema
  /\ outcome = Success(VString(<<"a">>))
  /\ ~validate(valSchema, valSchema.defaultValue, valField).ok

memberKeys(v) == {v.props[i].key : i \in 1..Len(v.props)}

\* Equality of two values by content; a property that is undefined counts as
\* no property.
RECURSIVE deepEqual(_, _)
deepEqual(a, b) ==
  /\ a.t = b.t
  /\ a.s = b.s
  /\ a.n = b.n
  /\ Len(a.items) = Len(b.items)
  /\ \A i \in 1..Len(a.items) : deepEqual(a.items[i], b.items[i])
  /\ \A k \in memberKeys(a) \cup memberKeys(b) :
       deepEqual(getMember(a.props, k), getMember(b.props, k))

\* The value satisfies the constraints of the schema, as the data model of
\* the specification states them.
RECURSIVE conforms(_, _)
conforms(schema, v) ==
  LET c == schema.constraints
  IN IF isAbsent(v) THEN ~schema.required
     ELSE CASE schema.type = "string" ->
                 /\ v.t = "string"
                 /\ c.minLength # <<>> => Len(v.s) >= c.minLength[1]
                 /\ c.maxLength # <<>> => Len(v.s) <= c.maxLength[1]
                 /\ c.pattern # <<>> => regexTest(c.pattern[1], v.s)
            [] schema.type = "number" ->
                 /\ v.t = "number"
                 /\ c.min # <<>> => v.n >= c.min[1]
                 /\ c.max # <<>> => v.n <= c.max[1]
                 /\ c.integer = <<TRUE>> => v.n % 2 = 0
            [] schema.type = "boolean" -> v.t = "boolean"
            [] schema.type = "function" -> v.t = "function"
            [] schema.type = "array" ->
                 /\ v.t = "array"
                 /\ c.minItems # <<>> => Len(v.items) >= c.minItems[1]
                 /\ c.maxItems # <<>> => Len(v.items) <= c.maxItems[1]
                 /\ c.items # <<>> => \A i \in 1..Len(v.items) : conforms(c.items[1], v.items[i])
            [] schema.type = "object" ->
                 /\ v.t = "object"
                 /\ c.properties # <<>> =>
                      \A i \in 1..Len(c.properties[1]) :
                        conforms(c.properties[1][i].schema, getMember(v.props, c.properties[1][i].key))
            [] schema.type = "enum" -> \E i \in 1..Len(c.values) : c.values[i] = v
            [] schema.type = "union" -> \E i \in 1..Len(c.schemas) : conforms(c.schemas[i], v)
            [] OTHER -> schema.type = "any"

\* No undefined or null is met where a schema is applied, and every object
\* that meets a property map has exactly the declared properties; a union is
\* followed into its first alternative that the value satisfies.
RECURSIVE presentAndDeclared(_, _)
presentAndDeclared(schema, v) ==
  LET c == schema.constraints
  IN /\ ~isAbsent(v)
     /\ (schema.type = "array" /\ v.t = "array" /\ c.items # <<>>) =>
          \A i \in 1..Len(v.items) : presentAndDeclared(c.items[1], v.items[i])
     /\ (schema.type = "object" /\ v.t = "object" /\ c.properties # <<>>) =>
          /\ memberKeys(v) = {c.properties[1][i].key : i \in 1..Len(c.properties[1])}
          /\ \A i \in 1..Len(c.properties[1]) :
               presentAndDeclared(c.properties[1][i].schema, getMember(v.props, c.properties[1][i].key))
     /\ schema.type = "union" =>
          \A i \in 1..Len(c.schemas) :
            (conforms(c.schemas[i], v) /\ \A j \in 1..(i - 1) : ~conforms(c.schemas[j], v))
              => presentAndDeclared(c.schemas[i], v)

\* C10 as claimed: for any schema and any value (one that is there) that
\* satisfies the schema's constraints, validate succeeds and returns the
\* value unchanged.
C10_RoundTrip ==
  (validated /\ ~isAbsent(valValue) /\ conforms(valSchema, valValue)) =>
    outcome.ok /\ deepEqual(outcome.value, valValue)

\* C10 as amended: for any schema and any value that satisfies the schema's
\* constraints, in which no undefined or null is met by a schema and every
\* object met by a property map has exactly the declared properties, validate
\* succeeds and returns a value equal to the input.
C10_RoundTripPresent ==
  (validated /\ conforms(valSchema, valValue) /\ presentAndDeclared(valSchema, valValue)) =>
    outcome.ok /\ deepEqual(outcome.value, valValue)

C10_Witness ==
  /\ validated
  /\ valSchema = ArraySchema(<<PersonSchema>>)
  /\ valValue = VArray(<<Person(VString(<<"a", "a">>), VString(<<"a", "a">>))>>)
  /\ presentAndDeclared(valSchema, valValue)
  /\ outcome = Success(valValue)

----------------------------------------------------------------------------
(* Properties of validateUnion (SchemaSpec) *)

alternatives == valSchema.constraints.schemas

accepts(i) == validate(alternatives[i], valValue, valField).ok

\* The alternatives the value passes, in declaration order
accepting == {i \in 1..Len(alternatives) : accepts(i)}

firstAccepting == CHOOSE i \in accepting : \A j \in accepting : i <= j

unionValidated == validated /\ valSchema.type = "union"

\* C11 as claimed: for a union [A, B] and any value that both A and B accept,
\* validate returns exactly what A.validate returns.
C11_UnionOrdering ==
  (unionValidated /\ Len(alternatives) = 2 /\ accepts(1) /\ accepts(2)) =>
    outcome = validate(alternatives[1], valValue, valField)

\* C11 as amended: for a union and a value that is neither undefined nor
\* null, the result is that of the first alternative, in declaration order,
\* that succeeds, and no alternative after it is consulted; for [A, B] with
\* a value both accept that is the result of A, and B is not consulted.
C11_UnionOrderingPresent ==
  (unionValidated /\ ~isAbsent(valValue) /\ accepting # {}) =>
    /\ outcome = validate(alternatives[firstAccepting], valValue, valField)
    /\ alternativesTried(alternatives, valValue, valField) = firstAccepting
    /\ (accepts(1) /\ accepts(2)) =>
         /\ outcome = validate(alternatives[1], valValue, valField)
         /\ alternativesTried(alternatives, valValue, valField) = 1

\* Both alternatives accept the object and return different values: the first
\* keeps it whole, the second would keep the declared properties only.
C11_Witness ==
  /\ unionValidated
  /\ valSchema = UnionSchema(<<ObjectSchema(<<>>), PersonSchema>>)
  /\ valValue = VObject(<<[key |-> Key_a, value |-> VString(<<"a", "a">>)],
                          [key |-> Key_c, value |-> VNumber(4)]>>)
  /\ accepts(1) /\ accepts(2)
  /\ validate(alternatives[1], valValue, valField) # validate(alternatives[2], valValue, valField)
  /\ outcome = Success(valValue)

\* The messages of the alternatives, in declaration order
alternativeMessages ==
  [i \in 1..Len(alternatives) |-> validate(alternatives[i], valValue, valField).error.message]

\* C12: for a union schema and a value that is there, validate fails only if
\* every alternative fails, and the failure is then a single one that carries
\* the message of every alternative in declaration order, the field path and
\* the offending value.
C12_UnionExhausted ==
  (unionValidated /\ ~isAbsent(valValue)) =>
    /\ ~outcome.ok <=> accepting = {}
    /\ ~outcome.ok =>
         /\ outcome.error.message =
              valField \o <<" must match one of the union types. Errors: ">>
                \o join(alternativeMessages, <<";", " ">>)
         /\ outcome.error.field = valField
         /\ outcome.error.value = valValue

\* A boolean fails both alternatives, with two different messages.
C12_Witness ==
  /\ unionValidated
  /\ valSchema = UnionSchema(<<StrictNumberSchema, StrictStringSchema>>)
  /\ valValue = VBoolean(TRUE)
  /\ ~outcome.ok
  /\ alternativeMessages[1] # alternativeMessages[2]
  /\ outcome.error.message =
       valField \o <<" must match one of the union types. Errors: ">>
         \o alternativeMessages[1] \o <<";", " ">> \o alternativeMessages[2]

----------------------------------------------------------------------------
(* The order of the checks of a string and of a number (SchemaSpec) *)

\* The one element of an optional option, or the default when undefined
optionOr(option, default) == IF option = <<>> THEN default ELSE option[1]

\* One check of a kind: whether the value violates it, and the message of the
\* failure the check reports
Check(violated, message) == [violated |-> violated, message |-> message]

\* The checks of a string schema in the order the specification gives them:
\* type, minimum length, maximum length, pattern
stringChecks ==
  LET c == valSchema.constraints
  IN <<Check(valValue.t # "string",
             valField \o <<" must be a string, got ">> \o <<typeof(valValue)>>),
       Check(c.minLength # <<>> /\ Len(valValue.s) < c.minLength[1],
             valField \o <<" must be at least ">> \o numToString(optionOr(c.minLength, 0))
               \o <<" characters long">>),
       Check(c.maxLength # <<>> /\ Len(valValue.s) > c.maxLength[1],
             valField \o <<" must be no more than ">> \o numToString(optionOr(c.maxLength, 0))
               \o <<" characters long">>),
       Check(c.pattern # <<>> /\ ~regexTest(c.pattern[1], valValue.s),
             valField \o <<" must match pattern: ">> \o optionOr(c.pattern, <<>>))>>

\* The checks of a number schema in the order the specification gives them:
\* type, minimum, maximum, integer-ness
numberChecks ==
  LET c == valSchema.constraints
  IN <<Check(valValue.t # "number",
             valField \o <<" must be a number, got ">> \o <<typeof(valValue)>>),
       Check(c.min # <<>> /\ valValue.n < c.min[1],
             valField \o <<" must be at least ">> \o halvesToString(optionOr(c.min, 0))),
       Check(c.max # <<>> /\ valValue.n > c.max[1],
             valField \o <<" must be no more than ">> \o halvesToString(optionOr(c.max, 0))),
       Check(c.integer = <<TRUE>> /\ valValue.n % 2 # 0,
             valField \o <<" must be an integer">>)>>

kindChecks == IF valSchema.type = "string" THEN stringChecks ELSE numberChecks

violatedChecks == {i \in 1..Len(kindChecks) : kindChecks[i].violated}

earliestViolated == CHOOSE i \in violatedChecks : \A j \in violatedChecks : i <= j

stringOrNumberValidated ==
  validated /\ valSchema.type \in {"string", "number"} /\ ~isAbsent(valValue)

\* C22: for a string or number schema and a present value, the type is
\* checked before any constraint and the constraints in the order minimum
\* length, maximum length, pattern (string) and minimum, maximum, integer-ness
\* (number): the failure reported is that of the earliest violated check, and
\* the value is returned when no check is violated.
C22_CheckOrder ==
  stringOrNumberValidated =>
    /\ outcome.ok <=> violatedChecks = {}
    /\ violatedChecks # {} =>
         /\ outcome.error.message = kindChecks[earliestViolated].message
         /\ outcome.error.field = valField
         /\ outcome.error.value = valValue
    /\ violatedChecks = {} => outcome.value = valValue

\* "B" is too short, too long and does not match the pattern: the failure is
\* that of the minimum length
C22_Witness ==
  /\ stringOrNumberValidated
  /\ valSchema = CrossedStringSchema
  /\ valValue = VString(<<"B">>)
  /\ violatedChecks = {2, 3, 4}
  /\ outcome.error.message =
       valField \o <<" must be at least ", "3", " characters long">>

----------------------------------------------------------------------------
(* The declared properties of an object (SchemaSpec) *)

\* An object schema that declares a property map has validated an object
objectValidated ==
  /\ validated
  /\ valSchema.type = "object"
  /\ valSchema.constraints.properties # <<>>
  /\ valValue.t = "object"

declaredProperties == valSchema.constraints.properties[1]

\* What the sub-schema of the i-th declared property makes of value[key],
\* under the field path of the object, a dot and the key
propertyOutcome(i) ==
  validate(declaredProperties[i].schema,
           getMember(valValue.props, declaredProperties[i].key),
           valField \o <<".">> \o declaredProperties[i].key)

failingProperties == {i \in 1..Len(declaredProperties) : ~propertyOutcome(i).ok}

undeclaredKeys ==
  {k \in memberKeys(valValue) : \A i \in 1..Len(declaredProperties) : declaredProperties[i].key # k}

\* C23: an object schema with a declared property map validates each declared
\* property of an object value against its sub-schema, under the field path
\* suffixed with a dot and the property name; a success holds the validated
\* declared properties and no property the map does not declare, and an
\* undeclared property is no failure.
C23_DeclaredPropertiesOnly ==
  objectValidated =>
    /\ outcome.ok <=> failingProperties = {}
    /\ outcome.ok =>
         /\ Len(outcome.value.props) = Len(declaredProperties)
         /\ \A i \in 1..Len(declaredProperties) :
              /\ outcome.value.props[i].key = declaredProperties[i].key
              /\ outcome.value.props[i].value = propertyOutcome(i).value
         /\ memberKeys(outcome.value) \cap undeclaredKeys = {}
    /\ ~outcome.ok =>
         \E i \in failingProperties :
           /\ outcome = propertyOutcome(i)
           /\ startsWith(outcome.error.field, valField \o <<".">> \o declaredProperties[i].key)

\* The value holds c, which the schema does not declare, before a: the result
\* holds a and b (its default) and not c
C23_Witness ==
  /\ objectValidated
  /\ valSchema = PersonSchema
  /\ valValue = VObject(<<[key |-> Key_c, value |-> VNumber(4)],
                          [key |-> Key_a, value |-> VString(<<"a", "a">>)]>>)
  /\ undeclaredKeys = {Key_c}
  /\ outcome = Success(Person(VString(<<"a", "a">>), VString(<<"a">>)))

----------------------------------------------------------------------------
(* The validation system: UIXComponentValidator and UIXValidator            *)
(* (part_000 lines 309-407)                                                 *)

\* new UIXComponentValidator(componentName, propsSchema); propsSchema is kept
\* as its entries in the order of Object.entries
UIXComponentValidator(componentName, propsSchema) ==
  [componentName |-> componentName, propsSchema |-> propsSchema]

\* One turn of the loop of lines 322-328: schema.validate(props[propName],
\* propName), a failure wrapped with the property and the component
validateProp(validator, entry, props) ==
  LET r == validate(entry.schema, getMember(props.props, entry.key), entry.key)
  IN IF r.ok THEN r
     ELSE Failure(<<"Invalid prop '">> \o entry.key \o <<"' for component '">>
                    \o validator.componentName \o <<"': ">> \o r.error.message,
                  entry.key, getMember(props.props, entry.key))

\* Faulty variant: the loop goes on after a failure and the failure of the
\* last failing property is the one thrown.
RECURSIVE validateDeclared_lastFailure(_, _, _)
validateDeclared_lastFailure(validator, entries, props) ==
  IF entries = <<>> THEN Success(VObject(<<>>))
  ELSE LET first == validateProp(validator, Head(entries), props)
           rest == validateDeclared_lastFailure(validator, Tail(entries), props)
       IN IF ~rest.ok THEN rest
          ELSE IF ~first.ok THEN first
          ELSE Success(VObject(<<[key |-> Head(entries).key, value |-> first.value]>>
                                 \o rest.value.props))

\* The loop of lines 322-328 over the declared properties that remain: the
\* throw of line 326 leaves it at the first failure
RECURSIVE validateDeclared(_, _, _)
validateDeclared(validator, entries, props) ==
  IF entries = <<>> THEN Success(VObject(<<>>))
  ELSE LET first == validateProp(validator, Head(entries), props)
       IN IF ~first.ok THEN first
          ELSE LET rest == validateDeclared(validator, Tail(entries), props)
               IN IF ~rest.ok THEN rest
                  ELSE Success(VObject(<<[key |-> Head(entries).key, value |-> first.value]>>
                                         \o rest.value.props))

\* The number of declared properties whose schema.validate is called by the
\* loop of lines 322-328
RECURSIVE declaredTried(_, _, _)
declaredTried(validator, entries, props) ==
  IF entries = <<>> THEN 0
  ELSE IF ~validateProp(validator, Head(entries), props).ok THEN 1
  ELSE 1 + declaredTried(validator, Tail(entries), props)

\* this.propsSchema.hasOwnProperty(propName)
hasOwnProperty(propsSchema, propName) ==
  \E i \in 1..Len(propsSchema) : propsSchema[i].key = propName

\* lines 331-335: one console.warn for each property of props, in the order
\* of Object.keys, that the schema does not declare (the warning sign and the
\* two spaces each message begins with are left out)
RECURSIVE unknownPropWarnings(_, _)
unknownPropWarnings(validator, entries) ==
  IF entries = <<>> THEN <<>>
  ELSE (IF hasOwnProperty(validator.propsSchema, Head(entries).key) THEN <<>>
        ELSE <<<<"Unknown prop '">> \o Head(entries).key \o <<"' passed to component '">>
                 \o validator.componentName \o <<"'">>>>)
       \o unknownPropWarnings(validator, Tail(entries))

\* Faulty variant: a property the schema does not declare is a failure.
componentValidate_rejectsUnknown(validator, props) ==
  LET r == validateDeclared(validator, validator.propsSchema, props)
      unknown == unknownPropWarnings(validator, props.props)
  IN IF r.ok /\ unknown # <<>>
     THEN [outcome |-> Failure(unknown[1], <<>>, props), warned |-> <<>>]
     ELSE [outcome |-> r, warned |-> IF r.ok THEN unknown ELSE <<>>]

\* UIXComponentValidator.validate(props), lines 318-338: the outcome and what
\* is written with console.warn; the warnings come after the loop, so a
\* failure leaves before any is written
componentValidate(validator, props) ==
  LET r == validateDeclared(validator, validator.propsSchema, props)
  IN [outcome |-> r,
      warned |-> IF r.ok THEN unknownPropWarnings(validator, props.props) ELSE <<>>]

\* Faulty variant: validatedProps is the object that was passed, so the
\* assignment of line 324 writes into the caller's object.
writeValidated_inPlace(heap, propName, v) ==
  [validatedProps |-> VObject(setMember(heap.props.props, propName, v)),
   props |-> VObject(setMember(heap.props.props, propName, v))]

\* validatedProps[propName] = ... (line 324), on the two objects the call
\* holds: validatedProps, created at line 319, and props, the caller's
writeValidated(heap, propName, v) ==
  [validatedProps |-> VObject(setMember(heap.validatedProps.props, propName, v)),
   props |-> heap.props]

\* The two objects after the loop of lines 322-328 over the declared
\* properties that remain; the throw of line 326 leaves them as they are
RECURSIVE validateDeclaredHeap(_, _, _)
validateDeclaredHeap(validator, entries, heap) ==
  IF entries = <<>> THEN heap
  ELSE LET r == validateProp(validator, Head(entries), heap.props)
       IN IF ~r.ok THEN heap
          ELSE validateDeclaredHeap(validator, Tail(entries),
                                    writeValidated(heap, Head(entries).key, r.value))

\* The caller's object after UIXComponentValidator.validate(props): line 319
\* creates validatedProps, and lines 331-335 only read props
propsAfterValidate(validator, props) ==
  validateDeclaredHeap(validator, validator.propsSchema,
                       [validatedProps |-> VObject(<<>>), props |-> props]).props

\* UIXValidator.registerComponent, lines 385-389: Map.prototype.set
RECURSIVE registerComponent(_, _, _)
registerComponent(validators, componentName, propsSchema) ==
  IF validators = <<>> THEN <<UIXComponentValidator(componentName, propsSchema)>>
  ELSE IF Head(validators).componentName = componentName
  THEN <<UIXComponentValidator(componentName, propsSchema)>> \o Tail(validators)
  ELSE <<Head(validators)>> \o registerComponent(Tail(validators), componentName, propsSchema)

\* UIXValidator.getValidator, lines 394-396: <<>> when undefined
getValidator(validators, componentName) ==
  SelectSeq(validators, LAMBDA v : v.componentName = componentName)

\* The caller's object after UIXValidator.validateComponent: the throw of
\* line 404 comes before props is used
propsAfterValidateComponent(validators, componentName, props) ==
  LET validator == getValidator(validators, componentName)
  IN IF validator = <<>> THEN props ELSE propsAfterValidate(validator[1], props)

\* UIXValidator.validateComponent, lines 401-407
validateComponent(validators, componentName, props) ==
  LET validator == getValidator(validators, componentName)
  IN IF validator = <<>>
     THEN [outcome |-> Failure(<<"No validator found for component: ">> \o componentName,
                               <<>>, VUndefined),
           warned |-> <<>>]
     ELSE componentValidate(validator[1], props)

----------------------------------------------------------------------------
(* ComponentSpec: components are registered with a UIXValidator, then       *)
(* validateComponent(componentName, props) is called                        *)

T_Card == <<"C","a","r","d">>

K_size == <<"s","i","z","e">>

K_color == <<"c","o","l","o","r">>

RequiredStringSchema == UIXSchema("string", TRUE, VUndefined, NoConstraints)

RequiredFunctionSchema == UIXSchema("function", TRUE, VUndefined, NoConstraints)

\* The property maps components are registered with
PropsSchemas ==
  {<<[key |-> K_text, schema |-> RequiredStringSchema],
     [key |-> K_onClick, schema |-> RequiredFunctionSchema]>>,
   <<[key |-> K_onClick, schema |-> RequiredFunctionSchema],
     [key |-> K_text, schema |-> RequiredStringSchema]>>,
   <<[key |-> K_text, schema |-> DefaultStringSchema],
     [key |-> K_onClick, schema |-> FunctionSchema]>>}

RegisteredNames == {T_Button, T_Input}

\* <<>> or the one entry of key with value v
entryOf(key, choice) == IF choice = <<>> THEN <<>> ELSE <<[key |-> key, value |-> choice[1]]>>

\* The property sets of the calls: text and onClick, there or not, of the
\* right type or not, with an undeclared property before and after them
PropsObjects ==
  {VObject(entryOf(K_size, size) \o entryOf(K_text, text) \o entryOf(K_onClick, onClick)
             \o entryOf(K_color, color)) :
     size \in {<<>>, <<VNumber(4)>>},
     text \in {<<>>, <<VString(S_Go)>>, <<VNumber(4)>>},
     onClick \in {<<>>, <<VFunction(<<"f">>)>>, <<VString(S_Go)>>},
     color \in {<<>>, <<VString(<<"a">>)>>}}

\* new UIXValidator(), lines 377-380
ComponentInit ==
  /\ pc = "register"
  /\ ast = <<>>
  /\ NoRun
  /\ NoValidation
  /\ NoLibrary
  /\ FirstRun

\* registerComponent(componentName, propsSchema)
RegisterComponent ==
  /\ pc = "register"
  /\ \E componentName \in RegisteredNames, propsSchema \in PropsSchemas :
       componentValidators' = registerComponent(componentValidators, componentName, propsSchema)
  /\ UNCHANGED <<ast, pc, usedIdentifiers, bindCandidates, internalStates, externalProps, warnings,
                 jsxBody, propsToInject, autoStates, output, boundVariables, schemaVars,
                 compName, compProps, propsAfter, pluginVars, compilerVars, rerunVars>>

\* validateComponent(componentName, props); warnings is what the call writes
\* with console.warn, propsAfter the object the caller passed as the call
\* leaves it
ValidateComponent ==
  /\ pc = "register"
  /\ \E componentName \in RegisteredNames \cup {T_Card}, props \in PropsObjects :
       LET r == validateComponent(componentValidators, componentName, props)
       IN /\ compName' = componentName
          /\ compProps' = props
          /\ propsAfter' = propsAfterValidateComponent(componentValidators, componentName, props)
          /\ outcome' = r.outcome
          /\ warnings' = r.warned
  /\ pc' = "validated"
  /\ UNCHANGED <<ast, usedIdentifiers, bindCandidates, internalStates, externalProps,
                 jsxBody, propsToInject, autoStates, output, boundVariables,
                 valSchema, valValue, valField, componentValidators,
                 pluginVars, compilerVars, rerunVars>>

ComponentNext == RegisterComponent \/ ValidateComponent

ComponentSpec == ComponentInit /\ [][ComponentNext]_vars

----------------------------------------------------------------------------
(* Properties of validateComponent (ComponentSpec) *)

\* A call for a registered component has returned or thrown
componentValidated ==
  pc = "validated" /\ getValidator(componentValidators, compName) # <<>>

theValidator == getValidator(componentValidators, compName)[1]

declared == theValidator.propsSchema

\* What schema.validate makes of the i-th declared property on its own
declaredOutcome(i) ==
  validate(declared[i].schema, getMember(compProps.props, declared[i].key), declared[i].key)

failing == {i \in 1..Len(declared) : ~declaredOutcome(i).ok}

firstFailing == CHOOSE i \in failing : \A j \in failing : i <= j

\* C13: the declared properties are validated in the order the schema
\* declares them; the failure returned is that of the first declared property
\* that fails, wrapped with the component name and the property name, and no
\* declared property after it is validated.
C13_FailFast ==
  componentValidated =>
    /\ outcome.ok <=> failing = {}
    /\ failing # {} =>
         /\ outcome.error.message =
              <<"Invalid prop '">> \o declared[firstFailing].key \o <<"' for component '">>
                \o compName \o <<"': ">> \o declaredOutcome(firstFailing).error.message
         /\ outcome.error.field = declared[firstFailing].key
         /\ declaredTried(theValidator, declared, compProps) = firstFailing

\* Both declared properties fail and the schema declares onClick before text:
\* the failure is that of onClick.
C13_Witness ==
  /\ componentValidated
  /\ compName = T_Button
  /\ declared[1].key = K_onClick
  /\ failing = {1, 2}
  /\ compProps = VObject(<<[key |-> K_text, value |-> VNumber(4)]>>)
  /\ outcome.error.field = K_onClick
  /\ outcome.error.message =
       <<"Invalid prop '">> \o K_onClick \o <<"' for component '">> \o T_Button
         \o <<"': ">> \o K_onClick \o <<" is required">>

\* The properties of props that the schema declares
knownProps ==
  VObject(SelectSeq(compProps.props, LAMBDA e : hasOwnProperty(declared, e.key)))

unknownKeys ==
  SelectSeq([i \in 1..Len(compProps.props) |-> compProps.props[i].key],
            LAMBDA k : ~hasOwnProperty(declared, k))

\* C14: a property of the input that the schema does not declare never makes
\* validation fail and never changes the validated values: the outcome is the
\* one the declared properties alone give, and each such property is only
\* reported with a warning (written once the declared properties have passed).
C14_UnknownPropsNonFatal ==
  componentValidated =>
    /\ outcome = validateComponent(componentValidators, compName, knownProps).outcome
    /\ outcome.ok =>
         /\ Len(warnings) = Len(unknownKeys)
         /\ \A i \in 1..Len(warnings) :
              warnings[i] = <<"Unknown prop '">> \o unknownKeys[i]
                              \o <<"' passed to component '">> \o compName \o <<"'">>
    /\ ~outcome.ok => warnings = <<>>

\* Two undeclared properties around two valid declared ones
C14_Witness ==
  /\ componentValidated
  /\ compName = T_Button
  /\ unknownKeys = <<K_size, K_color>>
  /\ outcome.ok
  /\ outcome.value = VObject(<<[key |-> K_text, value |-> VString(S_Go)],
                               [key |-> K_onClick, value |-> VFunction(<<"f">>)]>>)
  /\ Len(warnings) = 2

----------------------------------------------------------------------------
(* The plugin-hook boundary (UIXPluginManager): registration of plugins and *)
(* the execution of the hooks of one lifecycle point.  The class is not     *)
(* among the sources; it is modelled from sections 5 and 6 of the           *)
(* specification and from its uses in compiler/uix-test-suite.js.           *)

P_onCompile == <<"o","n","C","o","m","p","i","l","e">>

P_onOutput == <<"o","n","O","u","t","p","u","t">>

P_onPropError == <<"o","n","P","r","o","p","E","r","r","o","r">>

\* The named lifecycle points
HookPoints == {P_onCompile, P_onOutput, P_onPropError}

\* What a registered callable does when it is invoked: "sync" returns,
\* "throws" throws at once, "async" returns a promise that is fulfilled
\* later, "rejects" a promise that is rejected later
HookKinds == {"sync", "throws", "async", "rejects"}

E_pluginFailed == <<"P","l","u","g","i","n"," ","f","a","i","l","e","d">>

\* A plugin: the callables it brings, by lifecycle point ("none": it has none
\* for the point)
Plugin(onCompile, onOutput, onPropError) ==
  (P_onCompile :> onCompile) @@ (P_onOutput :> onOutput) @@ (P_onPropError :> onPropError)

Plugins ==
  {Plugin(k, "none", "none") : k \in HookKinds}
    \cup {Plugin("none", "sync", "none"), Plugin("none", "none", "sync"),
          Plugin("none", "none", "rejects"), Plugin("async", "none", "throws")}

MaxPlugins == 3

\* new UIXPluginManager(): no plugin, an empty list for every point
NoHooks == [point \in HookPoints |-> <<>>]

\* registerPlugin(plugin): each callable of the plugin is put at the end of
\* the list of its point; a hook is known by the number of its plugin
registerPlugin(registered, plugin, number) ==
  [point \in HookPoints |->
     IF plugin[point] = "none" THEN registered[point]
     ELSE Append(registered[point], [plugin |-> number, kind |-> plugin[point]])]

\* The hooks of the point that is being executed
pointHooks == hooks[hookPoint]

\* Faulty variant: a failure of a hook is thrown on to the caller of
\* executeHook.
catchHookError_rethrows(log, point, hook) ==
  [errorLog |-> log, pc |-> "failed"]

\* The failure of a hook is caught and logged with console.error; the
\* execution of the point goes on
catchHookError(log, point, hook) ==
  [errorLog |-> Append(log, [point |-> point, plugin |-> hook.plugin,
                             message |-> E_pluginFailed]),
   pc |-> "executing"]

\* Faulty variant: the next hook is invoked although the one before it is
\* still in progress.
mayInvokeNext_noAwait(active) == TRUE

\* The next hook is invoked once the one before it has been awaited
mayInvokeNext(active) == active = {}

\* The plugin manager of a compiler that has just been made
PluginInit ==
  /\ pc = "idle"
  /\ ast = <<>>
  /\ NoRun
  /\ NoValidation
  /\ NoRegistry
  /\ NoCompiler
  /\ FirstRun
  /\ plugins = <<>>
  /\ hooks = NoHooks
  /\ hookPoint = <<>>
  /\ hookPayload = <<>>
  /\ hookIndex = 0
  /\ hookActive = {}
  /\ callOrder = <<>>
  /\ errorLog = <<>>

\* registerPlugin(plugin)
RegisterPlugin ==
  /\ pc = "idle"
  /\ Len(plugins) < MaxPlugins
  /\ \E plugin \in Plugins :
       /\ plugins' = Append(plugins, plugin)
       /\ hooks' = registerPlugin(hooks, plugin, Len(plugins) + 1)
  /\ UNCHANGED <<ast, pc, usedIdentifiers, bindCandidates, internalStates, externalProps, warnings,
                 jsxBody, propsToInject, autoStates, output, boundVariables, schemaVars,
                 registryVars, compilerVars, rerunVars,
                 hookPoint, hookPayload, hookIndex, hookActive, callOrder, errorLog>>

\* executeHook(point, payload) is called
ExecuteHook ==
  /\ pc = "idle"
  /\ \E point \in HookPoints :
       /\ hookPoint' = point
       /\ hookPayload' = [type |-> point]
  /\ hookIndex' = 0
  /\ hookActive' = {}
  /\ callOrder' = <<>>
  /\ errorLog' = <<>>
  /\ pc' = "executing"
  /\ UNCHANGED <<ast, usedIdentifiers, bindCandidates, internalStates, externalProps, warnings,
                 jsxBody, propsToInject, autoStates, output, boundVariables, schemaVars,
                 registryVars, compilerVars, rerunVars, plugins, hooks>>

\* The next hook of the point is invoked with the payload
InvokeHook ==
  /\ pc = "executing"
  /\ hookIndex < Len(pointHooks)
  /\ mayInvokeNext(hookActive)
  /\ LET hook == pointHooks[hookIndex + 1]
         caught == catchHookError(errorLog, hookPoint, hook)
     IN /\ callOrder' = Append(callOrder, [plugin |-> hook.plugin, payload |-> hookPayload])
        /\ hookIndex' = hookIndex + 1
        /\ hookActive' = IF hook.kind \in {"async", "rejects"}
                         THEN hookActive \cup {hook.plugin} ELSE hookActive
        /\ errorLog' = IF hook.kind = "throws" THEN caught.errorLog ELSE errorLog
        /\ pc' = IF hook.kind = "throws" THEN caught.pc ELSE pc
  /\ UNCHANGED <<ast, usedIdentifiers, bindCandidates, internalStates, externalProps, warnings,
                 jsxBody, propsToInject, autoStates, output, boundVariables, schemaVars,
                 registryVars, compilerVars, rerunVars, plugins, hooks, hookPoint, hookPayload>>

\* The promise of a hook in progress is settled
SettleHook ==
  /\ pc = "executing"
  /\ \E i \in 1..Len(pointHooks) :
       LET hook == pointHooks[i]
           caught == catchHookError(errorLog, hookPoint, hook)
       IN /\ hook.plugin \in hookActive
          /\ hookActive' = hookActive \ {hook.plugin}
          /\ errorLog' = IF hook.kind = "rejects" THEN caught.errorLog ELSE errorLog
          /\ pc' = IF hook.kind = "rejects" THEN caught.pc ELSE pc
  /\ UNCHANGED <<ast, usedIdentifiers, bindCandidates, internalStates, externalProps, warnings,
                 jsxBody, propsToInject, autoStates, output, boundVariables, schemaVars,
                 registryVars, compilerVars, rerunVars, plugins, hooks, hookPoint, hookPayload,
                 hookIndex, callOrder>>

\* Every hook of the point has been awaited: executeHook returns
FinishHook ==
  /\ pc = "executing"
  /\ hookIndex = Len(pointHooks)
  /\ hookActive = {}
  /\ pc' = "executed"
  /\ UNCHANGED <<ast, usedIdentifiers, bindCandidates, internalStates, externalProps, warnings,
                 jsxBody, propsToInject, autoStates, output, boundVariables, schemaVars,
                 registryVars, compilerVars, rerunVars, pluginVars>>

PluginNext == RegisterPlugin \/ ExecuteHook \/ InvokeHook \/ SettleHook \/ FinishHook

PluginSpec == PluginInit /\ [][PluginNext]_vars

----------------------------------------------------------------------------
(* Properties of executeHook (PluginSpec) *)

executing == pc \in {"executing", "executed"}

\* The plugins whose hooks have been invoked, in the order of invocation
invoked == [i \in 1..Len(callOrder) |-> callOrder[i].plugin]

\* The plugins that have a hook for the point, in registration order
registeredForPoint == [i \in 1..Len(pointHooks) |-> pointHooks[i].plugin]

\* C15: the hooks of a lifecycle point are invoked strictly in registration
\* order, and a hook, asynchronous ones included, has completed before the
\* next one begins: at most one hook of the point is in progress, and it is
\* the one invoked last.
C15_HooksInOrder ==
  executing =>
    /\ Len(invoked) <= Len(registeredForPoint)
    /\ invoked = SubSeq(registeredForPoint, 1, Len(invoked))
    /\ \A i, j \in 1..Len(invoked) : i < j => invoked[i] < invoked[j]
    /\ Cardinality(hookActive) <= 1
    /\ hookActive # {} => hookActive = {invoked[Len(invoked)]}
    /\ pc = "executed" => invoked = registeredForPoint /\ hookActive = {}

\* Two asynchronous hooks and a third one, all invoked
C15_Witness ==
  /\ pc = "executed"
  /\ Len(pointHooks) = 3
  /\ pointHooks[1].kind = "async"
  /\ pointHooks[2].kind = "rejects"
  /\ invoked = <<1, 2, 3>>

\* The hooks of the point that fail, in registration order
failingHooks == SelectSeq(pointHooks, LAMBDA h : h.kind \in {"throws", "rejects"})

\* C16: a hook that fails is caught and logged; every hook registered after
\* it for the point is still invoked, and the execution of the point ends
\* without the failure reaching the caller.
C16_HookFailureContained ==
  /\ pc # "failed"
  /\ executing =>
       /\ Len(errorLog) <= Len(failingHooks)
       /\ \A i \in 1..Len(errorLog) :
            errorLog[i] = [point |-> hookPoint, plugin |-> failingHooks[i].plugin,
                           message |-> E_pluginFailed]
  /\ pc = "executed" =>
       /\ invoked = registeredForPoint
       /\ Len(errorLog) = Len(failingHooks)

\* The first hook throws, the second rejects, and a third one is invoked
\* after both
C16_Witness ==
  /\ pc = "executed"
  /\ Len(pointHooks) = 3
  /\ pointHooks[1].kind = "throws"
  /\ pointHooks[2].kind = "rejects"
  /\ pointHooks[3].kind = "sync"
  /\ invoked = <<1, 2, 3>>
  /\ Len(errorLog) = 2

----------------------------------------------------------------------------
(* The compilation boundary (UIXCompiler.validateProps) with the validation *)
(* strictness mode.  The class is not among the sources; it is modelled     *)
(* from sections 6 and 7 of the specification and from its uses in          *)
(* compiler/uix-test-suite.js, on top of UIXValidator.validateComponent     *)
(* (part_000) and the plugin-hook boundary above.                           *)

\* The validators a compiler is made with: Button requires text and onClick
BuiltInValidators ==
  registerComponent(<<>>, T_Button,
                    <<[key |-> K_text, schema |-> RequiredStringSchema],
                      [key |-> K_onClick, schema |-> RequiredFunctionSchema]>>)

\* The property sets handed to validateProps
CompilerProps ==
  {VObject(<<>>),
   VObject(<<[key |-> K_text, value |-> VString(S_Go)]>>),
   VObject(<<[key |-> K_text, value |-> VNumber(4)],
             [key |-> K_onClick, value |-> VFunction(<<"f">>)]>>),
   VObject(<<[key |-> K_text, value |-> VString(S_Go)],
             [key |-> K_onClick, value |-> VFunction(<<"f">>)]>>),
   VObject(<<[key |-> K_size, value |-> VNumber(4)],
             [key |-> K_text, value |-> VString(S_Go)],
             [key |-> K_onClick, value |-> VFunction(<<"f">>)]>>)}

NotCompiled == [status |-> "none", props |-> VUndefined, error |-> NoError]

\* validateProps returns the properties
Compiled(props) == [status |-> "ok", props |-> props, error |-> NoError]

\* The compilation is aborted: the failure is thrown to the caller
Fatal(error) == [status |-> "fatal", props |-> VUndefined, error |-> error]

\* The payload of the on-validation-error point
ValidationErrorPayload(componentName, error) ==
  [type |-> "validation_error", componentName |-> componentName, error |-> error]

\* Faulty variant: the strictness mode is not looked at; a failure never
\* aborts.
abortsOnFailure_never(strict) == FALSE

\* A validation failure aborts the compilation when the mode is strict
abortsOnFailure(strict) == strict

\* Faulty variant: after a failure an empty property set is handed on, not
\* the input.
passThrough_empty(validators, componentName, props) == VObject(<<>>)

\* In lenient mode the input properties of the component pass through
\* unchanged and unvalidated
passThrough(validators, componentName, props) == props

\* new UIXCompiler(options): the mode of the configuration (lenient unless
\* strictValidation is set), the built-in validators, no plugin
CompilerInit ==
  /\ pc = "idle"
  /\ ast = <<>>
  /\ NoRun
  /\ NoValidation
  /\ FirstRun
  /\ componentValidators = BuiltInValidators
  /\ compName = <<>>
  /\ compProps = <<>>
  /\ propsAfter = <<>>
  /\ strictValidation \in BOOLEAN
  /\ compiled = NotCompiled
  /\ plugins = <<>>
  /\ hooks = NoHooks
  /\ hookPoint = <<>>
  /\ hookPayload = <<>>
  /\ hookIndex = 0
  /\ hookActive = {}
  /\ callOrder = <<>>
  /\ errorLog = <<>>

\* validateProps(componentName, props) up to its return, its throw, or its
\* call of executeHook for the on-validation-error point
ValidateProps ==
  /\ pc = "idle"
  /\ \E props \in CompilerProps :
       LET r == validateComponent(componentValidators, T_Button, props)
       IN /\ compName' = T_Button
          /\ compProps' = props
          /\ outcome' = r.outcome
          /\ warnings' = r.warned
          /\ IF r.outcome.ok
             THEN /\ compiled' = Compiled(props)
                  /\ pc' = "compiled"
                  /\ UNCHANGED <<hookPoint, hookPayload>>
             ELSE IF abortsOnFailure(strictValidation)
             THEN /\ compiled' = Fatal(r.outcome.error)
                  /\ pc' = "aborted"
                  /\ UNCHANGED <<hookPoint, hookPayload>>
             ELSE /\ compiled' = NotCompiled
                  /\ hookPoint' = P_onPropError
                  /\ hookPayload' = ValidationErrorPayload(T_Button, r.outcome.error)
                  /\ pc' = "executing"
  /\ hookIndex' = 0
  /\ hookActive' = {}
  /\ callOrder' = <<>>
  /\ errorLog' = <<>>
  /\ UNCHANGED <<ast, usedIdentifiers, bindCandidates, internalStates, externalProps,
                 jsxBody, propsToInject, autoStates, output, boundVariables,
                 valSchema, valValue, valField, componentValidators, propsAfter,
                 strictValidation, plugins, hooks, rerunVars>>

\* The hooks of the on-validation-error point have been awaited:
\* validateProps returns and the pipeline goes on
ContinueCompilation ==
  /\ pc = "executed"
  /\ compiled' = Compiled(passThrough(componentValidators, compName, compProps))
  /\ pc' = "compiled"
  /\ UNCHANGED <<ast, usedIdentifiers, bindCandidates, internalStates, externalProps, warnings,
                 jsxBody, propsToInject, autoStates, output, boundVariables, schemaVars,
                 registryVars, strictValidation, pluginVars, rerunVars>>

CompilerNext ==
  RegisterPlugin \/ ValidateProps \/ InvokeHook \/ SettleHook \/ FinishHook \/ ContinueCompilation

CompilerSpec == CompilerInit /\ [][CompilerNext]_vars

----------------------------------------------------------------------------
(* Properties of the strictness mode (CompilerSpec) *)

\* validateProps has been called and the validation of the properties failed
validationFailed == pc # "idle" /\ ~outcome.ok

\* String.prototype.endsWith
endsWith(str, suffix) ==
  /\ Len(suffix) <= Len(str)
  /\ SubSeq(str, Len(str) - Len(suffix) + 1, Len(str)) = suffix

goOnly == VObject(<<[key |-> K_text, value |-> VString(S_Go)]>>)

\* C17: in strict mode the first validation failure of a component's
\* properties aborts the compilation and is surfaced to the caller as a fatal
\* error, with no hook invoked and no properties returned; for
\* Button(text: "Go") against a schema requiring onClick it is the
\* missing-required failure of field onClick.
C17_StrictAborts ==
  (validationFailed /\ strictValidation) =>
    /\ pc = "aborted"
    /\ compiled = Fatal(outcome.error)
    /\ outcome = validateComponent(componentValidators, compName, compProps).outcome
    /\ callOrder = <<>>
    /\ compProps = goOnly =>
         /\ compiled.error.field = K_onClick
         /\ endsWith(compiled.error.message, K_onClick \o <<" is required">>)

C17_Witness ==
  /\ strictValidation
  /\ pc = "aborted"
  /\ compProps = goOnly
  /\ plugins # <<>>
  /\ hooks[P_onPropError] # <<>>
  /\ compiled.status = "fatal"
  /\ compiled.error.field = K_onClick

\* C18: in lenient mode a validation failure of a component's properties
\* does not abort: it is reported through the on-validation-error point with
\* the payload {type: validation_error, componentName, error}, and the result
\* for the component is its input properties, unchanged; the pipeline goes on.
C18_LenientPassThrough ==
  (validationFailed /\ ~strictValidation) =>
    /\ pc \in {"executing", "executed", "compiled"}
    /\ compiled.status # "fatal"
    /\ hookPoint = P_onPropError
    /\ hookPayload = ValidationErrorPayload(compName, outcome.error)
    /\ \A i \in 1..Len(callOrder) : callOrder[i].payload = hookPayload
    /\ pc = "compiled" =>
         /\ compiled = Compiled(compProps)
         /\ invoked = registeredForPoint

\* Button(text: "Go") with two plugins listening, the first of which fails
C18_Witness ==
  /\ ~strictValidation
  /\ pc = "compiled"
  /\ compProps = goOnly
  /\ Len(callOrder) = 2
  /\ Len(errorLog) = 1
  /\ callOrder[1].payload.error.field = K_onClick
  /\ compiled = Compiled(goOnly)

----------------------------------------------------------------------------
(* compile-to-react.js: the emitted text as a function of the program, and  *)
(* a second run of the script                                               *)

\* The statements of lines 89-325 in the order of the script, from empty
\* collections
pipelineOutput(program) ==
  LET acc == collectAll(program, [used |-> {}, cands |-> <<>>, warns |-> <<>>])
      part == partitionAll(acc.cands, acc.used, [int |-> <<>>, ext |-> {}])
      g == generateChildren(program, SP \o SP, part.int, acc.used)
  IN computeOutput(computePropsToInject(g.used, part.int), computeAutoStates(part.int),
                   join(g.texts, NL))

\* Faulty variant: the set still holds a name of an earlier compilation.
newIdentifierSet_stale(earlier) == earlier \cup {S_settings}

\* const usedIdentifiers = new Set()   (line 20), whatever an earlier run of
\* the script had collected
newIdentifierSet(earlier) == {}

\* The programs that are compiled twice
RerunPrograms == {program \in Programs : Len(program) < MaxTop}

RerunInit ==
  /\ ast \in RerunPrograms
  /\ pc = "collect"
  /\ NoRun
  /\ NoValidation
  /\ NoLibrary
  /\ FirstRun

\* The script is run again on the same source: lines 14-23 parse it and make
\* the collections anew; the text of the first run is kept for comparison
Restart ==
  /\ pc = "done"
  /\ run = 1
  /\ run' = 2
  /\ firstOutput' = output
  /\ pc' = "collect"
  /\ usedIdentifiers' = newIdentifierSet(usedIdentifiers)
  /\ bindCandidates' = <<>>
  /\ internalStates' = <<>>
  /\ externalProps' = {}
  /\ warnings' = <<>>
  /\ jsxBody' = <<>>
  /\ propsToInject' = <<>>
  /\ autoStates' = <<>>
  /\ output' = <<>>
  /\ UNCHANGED <<ast, boundVariables, schemaVars, libraryVars>>

RerunNext == Next \/ Restart

RerunSpec == RerunInit /\ [][RerunNext]_vars

----------------------------------------------------------------------------
(* A malformed bind target (Spec) *)

\* The node has a bind annotation whose value is not a simple identifier
malformedBind(node) ==
  LET b == GetProp(node.props, K_bind)
  IN /\ b.typeof # "undefined"
     /\ ~(isExpression(b) /\ SimpleIdentifierRegex(b.value))

\* The program with the malformed bind annotations taken out
RECURSIVE withoutMalformedBind(_)
withoutMalformedBind(nodes) ==
  IF nodes = <<>> THEN <<>>
  ELSE LET node == Head(nodes)
       IN <<[node EXCEPT
               !.props = IF malformedBind(node)
                         THEN SelectSeq(node.props, LAMBDA q : q.key # K_bind)
                         ELSE node.props,
               !.children = withoutMalformedBind(node.children)]>>
          \o withoutMalformedBind(Tail(nodes))

malformedNodes == LET all == allNodes(ast) IN {i \in 1..Len(all) : malformedBind(all[i])}

\* The targets of the bind annotations that are simple identifiers
wellFormedTargets ==
  LET all == allNodes(ast)
  IN {GetProp(all[i].props, K_bind).value :
        i \in {j \in 1..Len(all) : /\ GetProp(all[j].props, K_bind).typeof # "undefined"
                                   /\ ~malformedBind(all[j])}}

\* C19: a malformed bind target is not fatal and the node is treated as if it
\* had no bind annotation: the compilation completes with one warning for
\* each such node, no bind candidate is registered for it, and the emitted
\* text is the text of the program without the annotation.
C19_MalformedBindIgnored ==
  (pc = "done" /\ malformedNodes # {}) =>
    /\ Len(warnings) = Cardinality(malformedNodes)
    /\ MapKeys(bindCandidates) = wellFormedTargets
    /\ output = pipelineOutput(withoutMalformedBind(ast))

----------------------------------------------------------------------------
(* The collection pass and the later statements (Spec) *)

collected == pc # "collect"

\* C25: after the collection pass the name of every bind candidate and its
\* setter name are both in usedIdentifiers, because the registration of the
\* candidate adds them, also when no other node references either name.
C25_CandidatesAreUsed ==
  collected =>
    \A i \in 1..Len(bindCandidates) :
      /\ bindCandidates[i].name \in usedIdentifiers
      /\ S_set \o capitalize(bindCandidates[i].name) \in usedIdentifiers

\* Input(bind: count) alone: no node references count or setCount
C25_Witness ==
  /\ pc = "partition"
  /\ ast = <<StandardElement(T_Input, <<Prop(K_bind, Expr(S_count))>>, <<>>)>>
  /\ referencedElsewhere(ast) = {}
  /\ MapKeys(bindCandidates) = {S_count}
  /\ usedIdentifiers = {S_count, S_setCount}

\* The names the collection pass contributes: the well-formed bind targets
\* with their setters, the If conditions, the For sources and item binders
collectionNames ==
  LET all == allNodes(ast)
  IN UNION {{v, S_set \o capitalize(v)} : v \in wellFormedTargets}
       \cup UNION {nodeReferences(all[i]) :
                     i \in {j \in 1..Len(all) : all[j].type \in {T_If, T_For}}}

\* The root identifiers of the property values of the elements
propertyNames ==
  LET all == allNodes(ast)
  IN UNION {propertyReferences(all[i]) :
              i \in {j \in 1..Len(all) : all[j].type \notin {T_If, T_For}}}

\* The root identifiers that occur only in property values
propertyOnlyNames == propertyNames \ collectionNames

\* C26: the partition is computed between the two traversals and is not
\* revised: when internalStates is computed usedIdentifiers holds only the
\* names of the bind targets, If conditions, For sources and For item
\* binders; the identifiers that occur only in property values are added by
\* the code generation, and internalStates stays the partition made from the
\* names of the collection pass.
C26_PartitionBetweenTraversals ==
  /\ pc \in {"partition", "generate"} =>
       /\ usedIdentifiers \subseteq collectionNames
       /\ usedIdentifiers \cap propertyOnlyNames = {}
  /\ pc \in {"props", "states", "output", "done"} =>
       /\ propertyOnlyNames \subseteq usedIdentifiers
       /\ usedIdentifiers = collectionNames \cup propertyNames
  /\ partitioned =>
       internalStates =
         partitionAll(bindCandidates, collectionNames, [int |-> <<>>, ext |-> {}]).int

\* settings occurs only as the onClick of a button, next to a bind target: it
\* was not in usedIdentifiers when the partition was made and is there after
\* the code generation
C26_Witness ==
  /\ pc = "props"
  /\ S_settings \in propertyOnlyNames
  /\ S_settings \in usedIdentifiers
  /\ S_settings \notin collectAll(ast, [used |-> {}, cands |-> <<>>, warns |-> <<>>]).used
  /\ MapKeys(bindCandidates) = {S_count}

\* The item binders of the For blocks of the program
loopItems == LET all == allNodes(ast) IN {all[i].item : i \in forBlocks}

\* The head of the mapping expression whose callback binds item
callbackHead(item) == <<".map((">> \o item \o <<", index) => (">>

\* The text of the artifact begins with the fragment that ends in
\* "CompiledUI({ "; the parameter list follows it.
\* C28: the item binder of every For block is added to usedIdentifiers and so
\* is a parameter of the generated component, unless it is an InternalState
\* variable or the setter of one, although the map callback of the block
\* binds the same name.
C28_LoopItemIsParameter ==
  /\ collected => loopItems \subseteq usedIdentifiers
  /\ pc \in {"states", "output", "done"} =>
       \A item \in loopItems :
         (item \notin internalNames /\ \A v \in internalNames : item # S_set \o capitalize(v))
           => item \in parameters
  /\ pc = "done" =>
       /\ startsWith(Tail(output), join(propsToInject, <<",", " ">>) \o <<" }) {\n">>)
       /\ \A item \in loopItems : contains(output, callbackHead(item))

\* for user in users { Text(text: user.name) } alone: user is a parameter of
\* CompiledUI and the parameter of the map callback
C28_Witness ==
  /\ pc = "done"
  /\ ast = <<usersLoop>>
  /\ loopItems = {S_user}
  /\ propsToInject = <<S_user, S_users>>
  /\ startsWith(Tail(output), S_user \o <<",", " ">> \o S_users \o <<" }) {\n">>)
  /\ contains(output, S_users \o callbackHead(S_user))

\* The nodes for which value and onChange are to be emitted: the Input
\* elements whose bind value is an expression
wiredNodes ==
  LET all == allNodes(ast)
  IN {i \in 1..Len(all) : all[i].type = T_Input /\ isExpression(GetProp(all[i].props, K_bind))}

wiredTargets == LET all == allNodes(ast) IN {GetProp(all[i].props, K_bind).value : i \in wiredNodes}

\* The values of all the bind annotations of the program
bindValues ==
  LET all == allNodes(ast)
  IN {GetProp(all[i].props, K_bind).value :
        i \in {j \in 1..Len(all) : GetProp(all[j].props, K_bind).typeof # "undefined"}}

\* The beginning of the onChange handler of a wired input
handlerHead == K_onChange \o <<"=", "{", "e => ">>

\* C29: registration and wiring follow different conditions: a well-formed
\* bind annotation on an element of any type registers a candidate and adds
\* its name and setter to usedIdentifiers, while value and onChange are
\* emitted for the Input elements whose bind value is an expression, and for
\* those whether or not a candidate was registered; the wired names and the
\* candidates can differ.
C29_RegistrationAndWiringDiffer ==
  /\ collected =>
       /\ MapKeys(bindCandidates) = wellFormedTargets
       /\ \A v \in wellFormedTargets : {v, S_set \o capitalize(v)} \subseteq usedIdentifiers
  /\ pc = "done" =>
       /\ \A v \in wiredTargets : contains(output, inputWiring(v, S_set \o capitalize(v)))
       /\ \A v \in bindValues \ wiredTargets :
            ~contains(output, inputWiring(v, S_set \o capitalize(v)))
       /\ Cardinality(occurrences(output, handlerHead)) = Cardinality(wiredNodes)

\* Text(bind: count) registers count and is not wired; Input(bind: user.name)
\* is wired and registers nothing
C29_Witness ==
  /\ pc = "done"
  /\ ast = <<StandardElement(T_Text, <<Prop(K_bind, Expr(S_count))>>, <<>>),
             StandardElement(T_Input, <<Prop(K_bind, Expr(S_userName))>>, <<>>)>>
  /\ MapKeys(bindCandidates) = {S_count}
  /\ wiredTargets = {S_userName}
  /\ contains(output, inputWiring(S_userName, S_set \o capitalize(S_userName)))
  /\ ~contains(output, inputWiring(S_count, S_setCount))

----------------------------------------------------------------------------
(* NestedSpec: compile-to-react.js on programs in which an element with a    *)
(* bind annotation has children with bind annotations of the same target     *)

\* The bind annotations of count: with no initial property, with a literal,
\* with a reference
NestedAnnotations ==
  {<<Prop(K_bind, Expr(S_count))>>,
   <<Prop(K_bind, Expr(S_count)), Prop(K_initial, Str(S_Ann))>>,
   <<Prop(K_bind, Expr(S_count)), Prop(K_initial, Str(S_hiThere))>>,
   <<Prop(K_bind, Expr(S_count)), Prop(K_initial, Expr(S_name))>>}

NestedLeaves == {StandardElement(T_Input, props, <<>>) : props \in NestedAnnotations}

NestedParents ==
  {StandardElement(T_Row, props, kids) :
     props \in NestedAnnotations,
     kids \in {<<>>} \cup {<<l>> : l \in NestedLeaves} \cup {<<l, m>> : l, m \in NestedLeaves}}

NestedPrograms ==
  {<<parent>> : parent \in NestedParents}
    \cup {<<parent, l>> : parent \in NestedParents, l \in NestedLeaves}

NestedInit ==
  /\ ast \in NestedPrograms
  /\ pc = "collect"
  /\ NoRun
  /\ NoValidation
  /\ NoLibrary
  /\ FirstRun

NestedNext == Collect \/ Partition \/ Generate \/ InjectProps \/ AutoStates \/ Emit

NestedSpec == NestedInit /\ [][NestedNext]_vars

\* The node visited last among those that bind v: a node comes before its
\* children and the children come in order
lastBindSite(v) ==
  LET all == allNodes(ast)
      last == CHOOSE i \in bindSites(ast, v) : \A j \in bindSites(ast, v) : j <= i
  IN all[last]

\* The initial value a node declares: the text of its initial property, the
\* empty string when it has none
declaredInitial(node) ==
  LET init == GetProp(node.props, K_initial)
  IN IF init.typeof = "undefined" THEN <<>> ELSE init.value

entriesOf(v) == {i \in 1..Len(bindCandidates) : bindCandidates[i].name = v}

\* C27: when several nodes bind the same identifier, bindCandidates holds one
\* entry for it, and its initial value is the one declared on the node the
\* collection traversal visits last (a node before its children, children in
\* order), the empty string when that node has no initial property.
C27_LastBindWins ==
  collected =>
    /\ MapKeys(bindCandidates) = wellFormedTargets
    /\ \A v \in wellFormedTargets :
         /\ Cardinality(entriesOf(v)) = 1
         /\ \A i \in entriesOf(v) :
              bindCandidates[i].initial = declaredInitial(lastBindSite(v))

\* A row that binds count with "Ann", its child with "hi there", and a later
\* sibling with no initial property: the entry holds the empty string
C27_Witness ==
  /\ pc = "partition"
  /\ ast = <<StandardElement(T_Row, <<Prop(K_bind, Expr(S_count)), Prop(K_initial, Str(S_Ann))>>,
               <<StandardElement(T_Input, <<Prop(K_bind, Expr(S_count)),
                                            Prop(K_initial, Str(S_hiThere))>>, <<>>)>>),
             StandardElement(T_Input, <<Prop(K_bind, Expr(S_count))>>, <<>>)>>
  /\ Cardinality(bindSites(ast, S_count)) = 3
  /\ bindCandidates = <<[name |-> S_count, initial |-> S_empty]>>

----------------------------------------------------------------------------
(* Two runs of the script (RerunSpec) *)

----------------------------------------------------------------------------
(* SeedSpec: the state declarations (compile-to-react.js lines 269-278) as a *)
(* function of internalStates.  The script is taken up at line 269 with      *)
(* every collected bind candidate in internalStates, the case the partition  *)
(* of lines 96-109 is written for.                                           *)

\* What is written after bind: target on a node: nothing, initial: "..." or
\* initial: expression
SeedInitials ==
  {<<>>, <<Str(S_Ann)>>, <<Str(S_hiThere)>>, <<Str(S_empty)>>, <<Expr(S_settings)>>,
   <<Expr(S_userName)>>}

SeedNodes ==
  {StandardElement(T_Input,
                   <<Prop(K_bind, Expr(v))>>
                     \o (IF init = <<>> THEN <<>> ELSE <<Prop(K_initial, init[1])>>),
                   <<>>) :
     v \in {S_count, S_name}, init \in SeedInitials}

SeedInit ==
  /\ ast \in {<<n>> : n \in SeedNodes} \cup {<<n, m>> : n, m \in SeedNodes}
  /\ pc = "states"
  /\ LET acc == collectAll(ast, [used |-> {}, cands |-> <<>>, warns |-> <<>>])
         g == generateChildren(ast, SP \o SP, acc.cands, acc.used)
     IN /\ bindCandidates = acc.cands
        /\ internalStates = acc.cands
        /\ warnings = acc.warns
        /\ usedIdentifiers = g.used
        /\ jsxBody = join(g.texts, NL)
        /\ propsToInject = computePropsToInject(g.used, acc.cands)
  /\ externalProps = {}
  /\ autoStates = <<>>
  /\ output = <<>>
  /\ boundVariables = <<>>
  /\ NoValidation
  /\ NoLibrary
  /\ FirstRun

SeedNext == AutoStates \/ Emit

SeedSpec == SeedInit /\ [][SeedNext]_vars

----------------------------------------------------------------------------
(* Properties of the state declarations (SeedSpec) *)

\* The node whose bind annotation gave the candidate its initial value: the
\* last one that binds the name
seedingNode(v) ==
  LET all == allNodes(ast)
      last == CHOOSE i \in bindSites(ast, v) : \A j \in bindSites(ast, v) : j <= i
  IN all[last]

\* The seed the claim gives the state of v: the empty string for no initial
\* property, the reference itself for a value that looks like an identifier
\* reference, the quoted literal otherwise
expectedSeed(v) ==
  LET init == GetProp(seedingNode(v).props, K_initial)
  IN IF init.typeof = "undefined" THEN <<"\"", "\"">>
     ELSE IF IdentifierPathRegex(init.value) THEN init.value
     ELSE <<"\"">> \o init.value \o <<"\"">>

expectedDeclaration(v) == declarationHead(v) \o expectedSeed(v) \o <<");">>

statesDeclared == pc \in {"output", "done"} /\ internalStates # <<>>

====
